---- MODULE Spec2Model ----
(***************************************************************************)
(* State-machine model of the ipo_update package (weekly IPO digest).      *)
(*                                                                         *)
(* Text is modelled as a sequence of characters; a character is a string   *)
(* atom.  Characters that cannot be written inside a TLA+ string literal   *)
(* carry a name (DQ, BS, BT, NL, TAB).  A Python None for a text value is  *)
(* the empty sequence wherever the code maps the empty string to None      *)
(* ("x or None", "if not x").                                              *)
(***************************************************************************)
EXTENDS Integers, Sequences, FiniteSets, TLC

VARIABLES
    \* _parse_recent_items (ipo_finder.py)
    recent_items, recent_cutoff, recent_pos, recent_parsed, recent_seen_tickers,
    \* _parse_upcoming_items (ipo_finder.py)
    upcoming_items, upcoming_today, upcoming_pos, upcoming_parsed,
    upcoming_seen_tickers, upcoming_seen_names,
    \* call_responses_with_web_search (llm_utils.py)
    retry_pc, attempt, has_responses, retry_exc, retry_log,
    \* main (runner.py)
    main_pc, config, args, recent_ipos, upcoming_ipos, main_idx,
    recent_rows, upcoming_rows, chart_assets, main_degraded, main_exc,
    report_written, email_sent, main_calls,
    \* extract_json_block (llm_utils.py)
    json_pc, text, matches, match_idx, start, open_char, idx, depth, in_string,
    escape_next, scan_end, json_result, json_round, first_result,
    \* _load_or_fetch_recent, _load_or_fetch_upcoming (runner.py)
    cache_pc, cache_kind, cache_file, cache_before, cache_req, cache_path, cache_result, cache_written, cache_runs,
    \* generate_comparison_chart (charts.py)
    chart_pc, series, benchmark_series, request, end_date, requested_start_date, earliest_available, start_date, stock_slice, bench_slice, actual_days, window_label, chart_exc, plotted, saved,
    \* compute_ipo_performance (performance.py)
    perf_pc, perf_ipo, perf_series, ipo_price, current_price, perf_since_ipo, return_1w, return_1m,
    \* fetch_daily_adjusted_batch (data_loader.py) and the news fetches of main (runner.py)
    av_pc, clock, last_call, last_av_call, av_ipos, batch_left, av_idx, av_calls,
    \* the tick formatter of generate_comparison_chart (charts.py)
    tick_pc, stock_index, start_date_obj, end_date_obj, has_january, first_jan_date_obj, year_shown_flag, tick_labels,
    \* generate_recent_summary, generate_upcoming_summary (thesis.py)
    updates, sum_today, model_calls, sum_result, sum_runs

recentVars == <<recent_items, recent_cutoff, recent_pos, recent_parsed, recent_seen_tickers>>
upcomingVars == <<upcoming_items, upcoming_today, upcoming_pos, upcoming_parsed,
                  upcoming_seen_tickers, upcoming_seen_names>>

retryVars == <<retry_pc, attempt, has_responses, retry_exc, retry_log>>

mainVars == <<main_pc, config, args, recent_ipos, upcoming_ipos, main_idx,
              recent_rows, upcoming_rows, chart_assets, main_degraded, main_exc,
              report_written, email_sent, main_calls>>

jsonVars == <<json_pc, text, matches, match_idx, start, open_char, idx, depth,
              in_string, escape_next, scan_end, json_result, json_round, first_result>>

cacheVars == <<cache_pc, cache_kind, cache_file, cache_before, cache_req, cache_path, cache_result, cache_written, cache_runs>>

chartVars == <<chart_pc, series, benchmark_series, request, end_date, requested_start_date, earliest_available, start_date, stock_slice, bench_slice, actual_days, window_label, chart_exc, plotted, saved>>

perfVars == <<perf_pc, perf_ipo, perf_series, ipo_price, current_price, perf_since_ipo, return_1w, return_1m>>

rateVars == <<av_pc, clock, last_call, last_av_call, av_ipos, batch_left, av_idx, av_calls>>

tickVars == <<tick_pc, stock_index, start_date_obj, end_date_obj, has_january, first_jan_date_obj, year_shown_flag, tick_labels>>

summaryVars == <<updates, sum_today, model_calls, sum_result, sum_runs>>

-----------------------------------------------------------------------------
(* Bounds of the model *)

MaxItems == 3

MaxTextLen == 4

MaxChunks == 3

MaxIpos == 2

MaxCached == 2

MaxRuns == 2

MaxDay == 4

MaxPoints == 3

\* longest duration of one call to the price/news API, in tenths of a second
MaxCallTime == 1

\* longest duration of the work between two calls, in tenths of a second
MaxWork == 3

\* most calls of the tick formatter for one chart
MaxTicks == 3

\* most calls of the summary generators in one behaviour
MaxSummaries == 2

\* last calendar day of the summary model (the first is day 1)
MaxToday == 2

-----------------------------------------------------------------------------
(* Characters and Python string methods *)

DQ == "DQ"
BS == "BS"
BT == "BT"
NL == "NL"
TAB == "TAB"

\* str.strip() with no argument strips whitespace
Whitespace == {" ", NL, TAB}

RECURSIVE LStrip(_, _)
LStrip(s, chars) ==
    IF s = <<>> THEN <<>>
    ELSE IF Head(s) \in chars THEN LStrip(Tail(s), chars) ELSE s

RECURSIVE RStrip(_, _)
RStrip(s, chars) ==
    IF s = <<>> THEN <<>>
    ELSE IF s[Len(s)] \in chars THEN RStrip(SubSeq(s, 1, Len(s) - 1), chars) ELSE s

Strip(s, chars) == RStrip(LStrip(s, chars), chars)

StartsWith(s, p) == Len(s) >= Len(p) /\ SubSeq(s, 1, Len(p)) = p

EndsWith(s, p) == Len(s) >= Len(p) /\ SubSeq(s, Len(s) - Len(p) + 1, Len(s)) = p

\* str.find(sub, start) with 1-based positions; 0 when sub does not occur
RECURSIVE Find(_, _, _)
Find(s, sub, from) ==
    IF from + Len(sub) - 1 > Len(s) THEN 0
    ELSE IF SubSeq(s, from, from + Len(sub) - 1) = sub THEN from
    ELSE Find(s, sub, from + 1)

\* str.replace(sub, ""): one left-to-right pass over non-overlapping occurrences
RECURSIVE Remove(_, _)
Remove(s, sub) ==
    IF Len(s) < Len(sub) THEN s
    ELSE IF StartsWith(s, sub) THEN Remove(SubSeq(s, Len(sub) + 1, Len(s)), sub)
    ELSE <<Head(s)>> \o Remove(Tail(s), sub)

LowerChar(c) ==
    CASE c = "A" -> "a" [] c = "C" -> "c" [] c = "H" -> "h" [] c = "P" -> "p"
      [] c = "S" -> "s" [] c = "B" -> "b"
      [] OTHER -> c

UpperChar(c) ==
    CASE c = "a" -> "A" [] c = "b" -> "B" [] c = "c" -> "C" [] c = "h" -> "H"
      [] c = "p" -> "P" [] c = "s" -> "S" [] c = "e" -> "E" [] c = "m" -> "M"
      [] OTHER -> c

Lower(s) == [i \in 1..Len(s) |-> LowerChar(s[i])]

Upper(s) == [i \in 1..Len(s) |-> UpperChar(s[i])]

-----------------------------------------------------------------------------
(* Field normalisers of ipo_finder.py *)

_normalize_ticker(value) ==
    IF value = <<>> THEN <<>> ELSE Upper(Strip(value, Whitespace))

HttpPrefix == <<"h", "t", "t", "p", ":", "/", "/">>
HttpsPrefix == <<"h", "t", "t", "p", "s", ":", "/", "/">>

\* text.split("](", 1)[0].lstrip("[").strip() for a text that contains "]("
MarkdownLinkText(s) ==
    Strip(LStrip(SubSeq(s, 1, Find(s, <<"]", "(">>, 1) - 1), {"["}), Whitespace)

_sanitize_name(value) ==
    IF value = <<>> THEN <<>>
    ELSE LET t0 == Strip(value, Whitespace)
             t1 == IF /\ StartsWith(t0, <<"[">>)
                      /\ Find(t0, <<"]", "(">>, 1) # 0
                      /\ EndsWith(t0, <<")">>)
                   THEN MarkdownLinkText(t0) ELSE t0
             t2 == Remove(Remove(t1, HttpPrefix), HttpsPrefix)
             t3 == Strip(Remove(t2, <<"(", ")">>), Whitespace)
         IN Strip(t3, {" ", "-", TAB})

\* str(item.get("type", "")).strip().lower()
NormTypeNoLower(raw) == Strip(raw, Whitespace)
NormType(raw) == Lower(Strip(raw, Whitespace))

Spac == <<"s", "p", "a", "c">>

\* a JSON null held under a key: item.get(key, "") returns None for it
PyNone == <<"PyNone">>

\* str(value): the text itself, and the four letters "None" for None
Str(raw) == IF raw = PyNone THEN <<"N", "o", "n", "e">> ELSE raw

\* str(item.get(key, "")).strip() or None
StripOrNone(raw) == Strip(Str(raw), Whitespace)

(* Dates are day numbers.  A raw date value is a record naming the textual  *)
(* form it was written in; parse_date yields the day for a form it knows    *)
(* and None (NoDate) for a missing or unparseable value.                    *)
NoDate == -1

\* the formats in the order parse_date tries them
DateFormats == <<"%Y-%m-%d", "%Y/%m/%d", "%m/%d/%Y", "%Y%m%d">>

\* datetime.strptime raises ValueError for a text that is not in the format
\* or that names no calendar day
ValueError == -2

strptime(value, fmt) ==
    IF value.fmt = fmt /\ value.day # NoDate THEN value.day ELSE ValueError

\* "for fmt in (...): try: return strptime(...) except ValueError: continue"
RECURSIVE TryFormats(_, _)
TryFormats(value, i) ==
    IF i > Len(DateFormats) THEN NoDate
    ELSE IF strptime(value, DateFormats[i]) # ValueError
         THEN strptime(value, DateFormats[i])
         ELSE TryFormats(value, i + 1)

parse_date(value) ==
    IF value.fmt = "" THEN NoDate ELSE TryFormats(value, 1)

SourceQuality(source_count) ==
    IF source_count <= 1 THEN "single-source" ELSE "multi-source"

-----------------------------------------------------------------------------
(* _parse_recent_items *)

High == <<"h", "i", "g", "h">>
Medium == <<"m", "e", "d", "i", "u", "m">>
Low == <<"l", "o", "w">>

\* confidence_rank.get(c or "", 0)
ConfidenceRank(c) ==
    CASE c = High -> 3 [] c = Medium -> 2 [] c = Low -> 1 [] OTHER -> 0

\* the replacement test of the ticker de-duplication
ReplacesRecentNoTieBreak(ipo, existing) ==
    ipo.source_count >= existing.source_count
ReplacesRecent(ipo, existing) ==
    \/ ipo.source_count > existing.source_count
    \/ /\ ipo.source_count = existing.source_count
       /\ ConfidenceRank(ipo.date_confidence) > ConfidenceRank(existing.date_confidence)

RecentIpo(item) ==
    [name |-> _sanitize_name(item.name),
     ticker |-> _normalize_ticker(item.ticker),
     ipo_date |-> parse_date(item.ipo_date),
     ipo_type |-> NormType(item.type),
     date_confidence |-> StripOrNone(item.date_confidence),
     source_count |-> Len(item.sources),
     source_quality |-> SourceQuality(Len(item.sources)),
     sources |-> item.sources]

\* the three "continue" filters at the head of the loop body
RecentSkippedNoneBeforeCutoff(item, cutoff) ==
    \/ _sanitize_name(item.name) = <<>>
    \/ parse_date(item.ipo_date) < cutoff
    \/ NormType(item.type) = Spac
RecentSkipped(item, cutoff) ==
    \/ _sanitize_name(item.name) = <<>>
    \/ parse_date(item.ipo_date) # NoDate /\ parse_date(item.ipo_date) < cutoff
    \/ NormType(item.type) = Spac

Put(f, k, v) == [x \in (DOMAIN f) \cup {k} |-> IF x = k THEN v ELSE f[x]]

\* one iteration of "for item in items"
ParseRecentItem ==
    /\ recent_pos < Len(recent_items)
    /\ LET item == recent_items[recent_pos + 1]
           ipo == RecentIpo(item)
       IN IF RecentSkipped(item, recent_cutoff)
          THEN UNCHANGED <<recent_parsed, recent_seen_tickers>>
          ELSE IF ipo.ticker # <<>> /\ ipo.ticker \in DOMAIN recent_seen_tickers
          THEN LET existing_idx == recent_seen_tickers[ipo.ticker]
                   existing == recent_parsed[existing_idx]
               IN /\ recent_parsed' = IF ReplacesRecent(ipo, existing)
                                      THEN [recent_parsed EXCEPT ![existing_idx] = ipo]
                                      ELSE recent_parsed
                  /\ UNCHANGED recent_seen_tickers
          ELSE /\ recent_seen_tickers' =
                      IF ipo.ticker # <<>>
                      THEN Put(recent_seen_tickers, ipo.ticker, Len(recent_parsed) + 1)
                      ELSE recent_seen_tickers
               /\ recent_parsed' = Append(recent_parsed, ipo)
    /\ recent_pos' = recent_pos + 1
    /\ UNCHANGED <<recent_items, recent_cutoff>>

-----------------------------------------------------------------------------
(* _parse_upcoming_items *)

WeekendNote == <<"Weekend date; verify pricing or first trade date">>

NoEdgarNote == <<"No confirmation on EDGAR">>

\* date.weekday(): Monday is 0; day 0 of the model's calendar is a Monday
Weekday(day) == day % 7

\* the replacement test of the ticker / name de-duplication
ReplacesUpcomingLastWins(ipo, existing) ==
    \/ ipo.source_count >= existing.source_count
    \/ ipo.edgar_confirmed /\ ~existing.edgar_confirmed
ReplacesUpcoming(ipo, existing) ==
    \/ ipo.source_count > existing.source_count
    \/ ipo.edgar_confirmed /\ ~existing.edgar_confirmed

\* date_note after the weekend flagging
UpcomingDateNote(item) ==
    LET date_note == StripOrNone(item.date_note)
        parsed_date == parse_date(item.expected_date)
    IN IF parsed_date # NoDate /\ Weekday(parsed_date) >= 5 /\ date_note = <<>>
       THEN WeekendNote ELSE date_note

\* edgar_note after the default note
UpcomingEdgarNote(item) ==
    LET edgar_note == StripOrNone(item.edgar_note)
    IN IF ~item.edgar_confirmed /\ edgar_note = <<>> THEN NoEdgarNote ELSE edgar_note

UpcomingIpo(item) ==
    [name |-> _sanitize_name(item.name),
     ticker |-> _normalize_ticker(item.ticker),
     expected_date |-> item.expected_date,
     date_note |-> UpcomingDateNote(item),
     ipo_type |-> NormType(item.type),
     edgar_confirmed |-> item.edgar_confirmed,
     edgar_note |-> UpcomingEdgarNote(item),
     source_count |-> Len(item.sources),
     source_quality |-> SourceQuality(Len(item.sources)),
     sources |-> item.sources]

\* the three "continue" filters at the head of the loop body
UpcomingSkippedTodayIncluded(item, today) ==
    \/ _sanitize_name(item.name) = <<>>
    \/ NormType(item.type) = Spac
    \/ parse_date(item.expected_date) # NoDate /\ parse_date(item.expected_date) <= today
UpcomingSkipped(item, today) ==
    \/ _sanitize_name(item.name) = <<>>
    \/ NormType(item.type) = Spac
    \/ parse_date(item.expected_date) # NoDate /\ parse_date(item.expected_date) < today

\* name.lower().strip()
NameKey(name) == Strip(Lower(name), Whitespace)

\* one iteration of "for item in items"
ParseUpcomingItem ==
    /\ upcoming_pos < Len(upcoming_items)
    /\ LET item == upcoming_items[upcoming_pos + 1]
           ipo == UpcomingIpo(item)
           name_key == NameKey(ipo.name)
       IN IF UpcomingSkipped(item, upcoming_today)
          THEN UNCHANGED <<upcoming_parsed, upcoming_seen_tickers, upcoming_seen_names>>
          ELSE IF ipo.ticker # <<>> /\ ipo.ticker \in DOMAIN upcoming_seen_tickers
          THEN LET existing_idx == upcoming_seen_tickers[ipo.ticker]
                   existing == upcoming_parsed[existing_idx]
               IN /\ upcoming_parsed' = IF ReplacesUpcoming(ipo, existing)
                                        THEN [upcoming_parsed EXCEPT ![existing_idx] = ipo]
                                        ELSE upcoming_parsed
                  /\ UNCHANGED <<upcoming_seen_tickers, upcoming_seen_names>>
          ELSE IF ipo.ticker = <<>> /\ name_key \in DOMAIN upcoming_seen_names
          THEN LET existing_idx == upcoming_seen_names[name_key]
                   existing == upcoming_parsed[existing_idx]
               IN /\ upcoming_parsed' = IF ReplacesUpcoming(ipo, existing)
                                        THEN [upcoming_parsed EXCEPT ![existing_idx] = ipo]
                                        ELSE upcoming_parsed
                  /\ UNCHANGED <<upcoming_seen_tickers, upcoming_seen_names>>
          ELSE /\ IF ipo.ticker # <<>>
                  THEN /\ upcoming_seen_tickers' =
                              Put(upcoming_seen_tickers, ipo.ticker, Len(upcoming_parsed) + 1)
                       /\ UNCHANGED upcoming_seen_names
                  ELSE /\ upcoming_seen_names' =
                              Put(upcoming_seen_names, name_key, Len(upcoming_parsed) + 1)
                       /\ UNCHANGED upcoming_seen_tickers
               /\ upcoming_parsed' = Append(upcoming_parsed, ipo)
    /\ upcoming_pos' = upcoming_pos + 1
    /\ UNCHANGED <<upcoming_items, upcoming_today>>

-----------------------------------------------------------------------------
(* Inputs of the two parsers: lists of loosely-typed items from the model *)

Acme == <<"A", "c", "m", "e">>

NoneDate == [fmt |-> "", day |-> NoDate]

IsoDate(d) == [fmt |-> "%Y-%m-%d", day |-> d]

RecentItem(name, ticker, type, conf, nsrc, date) ==
    [name |-> name, ticker |-> ticker, type |-> type, date_confidence |-> conf,
     sources |-> SubSeq(<<"s1", "s2">>, 1, nsrc), ipo_date |-> date]

RecentCutoffs == {5}

RecentItemUniverse ==
    \* one ticker, every source count and confidence
    { RecentItem(Acme, <<"a">>, <<>>, c, n, IsoDate(7)) :
          c \in {High, <<" ", "l", "o", "w">>, <<"H", "i", "g", "h">>}, n \in 0..2 }
    \cup
    { \* the same ticker written differently, another ticker, no ticker
      RecentItem(Acme, <<" ", "A", " ">>, <<>>, Medium, 2, [fmt |-> "%m/%d/%Y", day |-> 6]),
      RecentItem(Acme, <<"b">>, <<>>, Low, 1, NoneDate),
      RecentItem(Acme, <<>>, <<>>, <<>>, 1, [fmt |-> "text", day |-> 9]),
      \* names: markdown link, nothing left after sanitising
      RecentItem(<<"[", "A", "b", "]", "(", "h", "t", "t", "p", ":", "/", "/", "b", ")">>,
                 <<"a">>, <<>>, High, 1, IsoDate(5)),
      RecentItem(<<" ", "-", " ", "(", ")", " ">>, <<"a">>, <<>>, High, 2, IsoDate(7)),
      RecentItem(<<>>, <<"a">>, <<>>, High, 2, IsoDate(7)),
      \* SPACs, and a listing before the cutoff
      RecentItem(Acme, <<"a">>, <<" ", "S", "P", "A", "C">>, High, 2, IsoDate(7)),
      RecentItem(Acme, <<>>, Spac, Low, 0, NoneDate),
      RecentItem(Acme, <<"a">>, <<"o", "p">>, High, 2, [fmt |-> "%Y%m%d", day |-> 3]) }

UpcomingItem(name, ticker, type, nsrc, edgar, enote, date, dnote) ==
    [name |-> name, ticker |-> ticker, type |-> type,
     sources |-> SubSeq(<<"s1", "s2">>, 1, nsrc), edgar_confirmed |-> edgar,
     edgar_note |-> enote, expected_date |-> date, date_note |-> dnote]

UpcomingTodays == {10, 13}

Tbd == [fmt |-> "text", day |-> NoDate]

UpcomingItemUniverse ==
    \* one ticker, every source count, confirmed or not
    { UpcomingItem(Acme, <<"a">>, <<>>, n, e, <<>>, Tbd, <<>>) :
          n \in 0..2, e \in BOOLEAN }
    \cup
    \* no ticker: the name is the key
    { UpcomingItem(nm, <<>>, <<>>, n, e, <<"o", "k">>, NoneDate, <<>>) :
          nm \in {Acme, <<"a", "c", "m", "e", " ">>}, n \in 1..2, e \in {FALSE} }
    \cup
    { UpcomingItem(Acme, <<>>, <<>>, 1, TRUE, <<>>, Tbd, <<>>),
      UpcomingItem(Acme, <<"A", " ">>, <<>>, 1, TRUE, <<>>, IsoDate(14), <<>>),
      \* weekend dates (days 12 and 13), with and without a note
      UpcomingItem(Acme, <<"b">>, <<>>, 1, TRUE, <<>>, IsoDate(12), <<" ">>),
      UpcomingItem(Acme, <<"b">>, <<>>, 2, TRUE, <<>>, IsoDate(13), <<"o", "k">>),
      \* a weekend date with "date_note": null
      UpcomingItem(Acme, <<"c">>, <<>>, 1, TRUE, <<>>, IsoDate(13), PyNone),
      \* a date before today, a SPAC, a name that sanitises to nothing
      UpcomingItem(Acme, <<"a">>, <<>>, 2, TRUE, <<>>, IsoDate(9), <<>>),
      UpcomingItem(Acme, <<"a">>, <<"S", "p", "a", "c", " ">>, 2, TRUE, <<>>, Tbd, <<>>),
      UpcomingItem(<<"(", ")">>, <<"a">>, <<>>, 2, TRUE, <<>>, Tbd, <<>>) }

ItemLists(universe) == UNION { [1..n -> universe] : n \in 0..MaxItems }

InitRecent ==
    /\ recent_items \in ItemLists(RecentItemUniverse)
    /\ recent_cutoff \in RecentCutoffs
    /\ recent_pos = 0
    /\ recent_parsed = <<>>
    /\ recent_seen_tickers = <<>>

IdleRecent ==
    /\ recent_items = <<>>
    /\ recent_cutoff = 0
    /\ recent_pos = 0
    /\ recent_parsed = <<>>
    /\ recent_seen_tickers = <<>>

InitUpcoming ==
    /\ upcoming_items \in ItemLists(UpcomingItemUniverse)
    /\ upcoming_today \in UpcomingTodays
    /\ upcoming_pos = 0
    /\ upcoming_parsed = <<>>
    /\ upcoming_seen_tickers = <<>>
    /\ upcoming_seen_names = <<>>

IdleUpcoming ==
    /\ upcoming_items = <<>>
    /\ upcoming_today = 0
    /\ upcoming_pos = 0
    /\ upcoming_parsed = <<>>
    /\ upcoming_seen_tickers = <<>>
    /\ upcoming_seen_names = <<>>

-----------------------------------------------------------------------------
(* call_responses_with_web_search: the retry loop around the model call *)

_MAX_RETRIES == 3

_RETRY_BACKOFF_BASE == 5

\* str(exc)[:300]
MsgLimit == 300

RECURSIVE Pow2(_)
Pow2(n) == IF n = 0 THEN 1 ELSE 2 * Pow2(n - 1)

(* An exception raised by the model call: its class, and the position in    *)
(* its message of a billing keyword ("insufficient_quota", "billing",       *)
(* "deactivated"), 0 when the message holds none.                           *)
ExceptionClasses ==
    {"AuthenticationError", "PermissionDeniedError", "RateLimitError",
     "APIConnectionError", "InternalServerError", "BadRequestError", "AttributeError"}

KeywordPositions == {0, 12, 310}

Exceptions == [cls : ExceptionClasses, kw_at : KeywordPositions]

NoExc == [cls |-> "", kw_at |-> 0]

\* any(kw in lower_msg ...) on the first MsgLimit characters of the message
BillingMessageNoCheck(exc) == FALSE
BillingMessage(exc) == exc.kw_at >= 1 /\ exc.kw_at <= MsgLimit

\* the three "raise SystemExit" tests of the except block
IsFatal(exc) ==
    \/ exc.cls = "AuthenticationError"
    \/ exc.cls = "PermissionDeniedError"
    \/ BillingMessage(exc)

\* wait = _RETRY_BACKOFF_BASE * (2 ** (attempt - 1))
BackoffExponentOffByOne(a) == _RETRY_BACKOFF_BASE * Pow2(a)
Backoff(a) == _RETRY_BACKOFF_BASE * Pow2(a - 1)

\* "if attempt < _MAX_RETRIES": another attempt is permitted
RetriesLeftOffByOne(a) == a <= _MAX_RETRIES
RetriesLeft(a) == a < _MAX_RETRIES

Event(ev, exc, wait) == [ev |-> ev, exc |-> exc, wait |-> wait, attempt |-> attempt]

\* the try block completes: Responses API, or the Chat Completions fallback
CallSucceeds ==
    /\ retry_pc = "call"
    /\ retry_log' = retry_log \o
           <<Event(IF has_responses THEN "responses.create" ELSE "chat.completions.create",
                   NoExc, 0),
             Event("return", NoExc, 0)>>
    /\ retry_pc' = "returned"
    /\ UNCHANGED <<attempt, has_responses, retry_exc>>

\* the try block raises exc; the except block classifies it
CallFails ==
    /\ retry_pc = "call"
    /\ \E exc \in Exceptions :
          /\ retry_exc' = exc
          /\ LET called == Event(IF has_responses THEN "responses.create"
                                 ELSE "chat.completions.create", exc, 0)
             IN IF IsFatal(exc)
                THEN /\ retry_pc' = "exit"
                     /\ retry_log' = retry_log \o <<called, Event("SystemExit", exc, 0)>>
                ELSE IF RetriesLeft(attempt)
                THEN /\ retry_pc' = "sleep"
                     /\ retry_log' = Append(retry_log, called)
                ELSE /\ retry_pc' = "raised"
                     /\ retry_log' = retry_log \o <<called, Event("raise", exc, 0)>>
    /\ UNCHANGED <<attempt, has_responses>>

\* time.sleep(wait), then the next iteration of the for loop
Sleep ==
    /\ retry_pc = "sleep"
    /\ retry_log' = Append(retry_log, Event("sleep", retry_exc, Backoff(attempt)))
    /\ attempt' = attempt + 1
    /\ retry_pc' = "call"
    /\ UNCHANGED <<has_responses, retry_exc>>

InitRetry ==
    /\ retry_pc = "call"
    /\ attempt = 1
    /\ has_responses \in BOOLEAN
    /\ retry_exc = NoExc
    /\ retry_log = <<>>

IdleRetry ==
    /\ retry_pc = "idle"
    /\ attempt = 0
    /\ has_responses = FALSE
    /\ retry_exc = NoExc
    /\ retry_log = <<>>

-----------------------------------------------------------------------------
(* main: the orchestration of one run (runner.py) *)

NoError == [cls |-> "", at |-> ""]

Raised(cls, at) == [cls |-> cls, at |-> at]

\* the process ends with an uncaught exception
Abort(cls, at) ==
    /\ main_pc' = "aborted"
    /\ main_exc' = Raised(cls, at)

\* the fields of the row dataclasses; none has a default value
RecentIpoRowFields ==
    {"name", "ticker", "ipo_date", "ipo_price", "perf_since_ipo", "return_1w",
     "return_1m", "source_quality", "recommendation"}

UpcomingIpoRowFields ==
    {"name", "ticker", "indicative_price", "price_confidence", "expected_date",
     "date_status", "date_note", "business_summary", "source_quality",
     "edgar_confirmed", "edgar_note", "recommendation"}

\* the keyword arguments main passes when it builds a row
RecentRowKwargs ==
    {"name", "ticker", "ipo_date", "ipo_price", "perf_since_ipo", "return_1w",
     "return_1m", "recommendation"}

UpcomingRowKwargs ==
    {"name", "ticker", "indicative_price", "price_confidence", "expected_date",
     "date_status", "business_summary", "recommendation"}

\* a dataclass constructor raises TypeError on a missing or unexpected argument
ConstructorRaises(fields, kwargs) == fields # kwargs

\* what a call made for one IPO can do: succeed, raise an Exception, or end
\* the process with SystemExit (model authentication / billing failure)
LlmOutcomes == {"ok", "Exception", "SystemExit"}

NewsOutcomes == {"ok", "Exception"}

\* generate_comparison_chart: the insufficient-data ValueError, or another error
ChartOutcomes == {"ok", "ValueError", "OSError"}

\* an IPO as main sees it: whether it has a ticker and a stored baseline
IpoKinds == [has_ticker : BOOLEAN, has_baseline : BOOLEAN]

IpoLists == UNION { [1..n -> IpoKinds] : n \in 0..MaxIpos }

Configs ==
    [alpha_vantage_key : BOOLEAN, openai_api_key : BOOLEAN, openai_installed : BOOLEAN,
     gmail : BOOLEAN, email_to : BOOLEAN, email_to_test : BOOLEAN]

Args == [no_email : BOOLEAN, test_email : BOOLEAN]

\* load_config, the API-key check and build_openai_client
LoadConfig ==
    /\ main_pc = "config"
    /\ UNCHANGED main_calls
    /\ IF ~config.alpha_vantage_key THEN Abort("ValueError", "load_config")
       ELSE IF ~config.openai_api_key THEN Abort("ValueError", "openai_api_key")
       ELSE IF ~config.openai_installed THEN Abort("RuntimeError", "build_openai_client")
       ELSE main_pc' = "load" /\ UNCHANGED main_exc
    /\ UNCHANGED <<config, args, recent_ipos, upcoming_ipos, main_idx, recent_rows,
                   upcoming_rows, chart_assets, main_degraded, report_written, email_sent>>

(* _load_or_fetch_recent and _load_or_fetch_upcoming.  A list comes from the *)
(* fetch pipeline, which calls the model and may raise what the model call  *)
(* raises; a valid cache makes the function build the records from the      *)
(* cached items, which raises TypeError (LoadFromCache below).  The two    *)
(* lists of a run hold at most MaxIpos IPOs together.                       *)
LoadIpoLists ==
    /\ main_pc = "load"
    /\ \/ /\ recent_ipos' \in IpoLists
          /\ upcoming_ipos' \in IpoLists
          /\ Len(recent_ipos') + Len(upcoming_ipos') <= MaxIpos
          /\ main_calls' = main_calls \cup {"llm"}
          /\ main_pc' = "prices"
          /\ UNCHANGED main_exc
       \/ /\ \E cls \in {"SystemExit", "Exception"} : Abort(cls, "fetch_ipos")
          /\ main_calls' = main_calls \cup {"llm"}
          /\ UNCHANGED <<recent_ipos, upcoming_ipos>>
       \/ /\ Abort("TypeError", "_load_or_fetch")
          /\ UNCHANGED <<main_calls, recent_ipos, upcoming_ipos>>
    /\ UNCHANGED <<config, args, main_idx, recent_rows, upcoming_rows, chart_assets,
                   main_degraded, report_written, email_sent>>

\* fetch_daily_adjusted_batch: a failed request is not caught
FetchPrices ==
    /\ main_pc = "prices"
    /\ main_calls' = main_calls \cup {"prices"}
    /\ \/ main_pc' = "recent" /\ UNCHANGED main_exc
       \/ Abort("RequestException", "fetch_daily_adjusted_batch")
    /\ UNCHANGED <<config, args, recent_ipos, upcoming_ipos, main_idx, recent_rows,
                   upcoming_rows, chart_assets, main_degraded, report_written, email_sent>>

\* the calls one iteration makes before it builds the row
CallsFor(ipo, news) ==
    (IF ipo.has_baseline THEN {} ELSE {"llm"})
    \cup (IF news /\ ipo.has_ticker THEN {"news"} ELSE {})

\* "except Exception as exc" around a per-item call: SystemExit derives from
\* BaseException and passes through it
CaughtBareExcept(outcome) == outcome # "ok"
Caught(outcome) == outcome = "Exception"

\* an outcome other than success that the handler does not catch
Escapes(outcome) == outcome # "ok" /\ ~Caught(outcome)

\* "fatal" marks that a model call of the iteration ended in the fatal exit
FatalIn(ipo, b, s) ==
    IF (~ipo.has_baseline /\ b = "SystemExit") \/ s = "SystemExit"
    THEN {"fatal"} ELSE {}

\* the per-item failures that the handlers of the loop body turned into a fallback
Degraded(ipo, b, n, s) ==
    (IF ~ipo.has_baseline /\ b # "ok" THEN {"baseline"} ELSE {})
    \cup (IF ipo.has_ticker /\ n # "ok" THEN {"news"} ELSE {})
    \cup (IF s # "ok" THEN {"summary"} ELSE {})

\* one iteration of "for ipo in recent_ipos"
ProcessRecentIpo ==
    /\ main_pc = "recent"
    /\ main_idx < Len(recent_ipos)
    /\ LET ipo == recent_ipos[main_idx + 1]
       IN \E b \in LlmOutcomes, n \in NewsOutcomes, s \in LlmOutcomes,
             c1 \in ChartOutcomes, c2 \in ChartOutcomes :
             LET row == [has_ticker |-> ipo.has_ticker, fallback |-> Degraded(ipo, b, n, s)]
                 charts == (IF c1 = "ok" THEN 1 ELSE 0)
                           + (IF c1 # "OSError" /\ c2 = "ok" THEN 1 ELSE 0)
                 skipped == IF c1 = "ValueError" \/ (c1 # "OSError" /\ c2 = "ValueError")
                            THEN {"chart"} ELSE {}
             IN IF ~ipo.has_baseline /\ Escapes(b)
                THEN /\ Abort(b, "generate_baseline")
                     /\ main_calls' = main_calls \cup {"llm", "fatal"}
                     /\ UNCHANGED <<main_idx, recent_rows, chart_assets, main_degraded>>
                ELSE IF Escapes(s)
                THEN /\ Abort(s, "generate_recent_summary")
                     /\ main_calls' = main_calls \cup CallsFor(ipo, TRUE)
                                          \cup {"llm"} \cup FatalIn(ipo, b, s)
                     /\ UNCHANGED <<main_idx, recent_rows, chart_assets, main_degraded>>
                ELSE IF ConstructorRaises(RecentIpoRowFields, RecentRowKwargs)
                THEN /\ Abort("TypeError", "RecentIpoRow")
                     /\ main_calls' = main_calls \cup CallsFor(ipo, TRUE)
                                          \cup {"llm"} \cup FatalIn(ipo, b, s)
                     /\ UNCHANGED <<main_idx, recent_rows, chart_assets, main_degraded>>
                ELSE /\ recent_rows' = Append(recent_rows, row)
                     /\ main_calls' = main_calls \cup CallsFor(ipo, TRUE)
                                          \cup {"llm"} \cup FatalIn(ipo, b, s)
                     /\ IF ~ipo.has_ticker
                        THEN /\ main_degraded' = main_degraded \cup row.fallback
                             /\ main_idx' = main_idx + 1
                             /\ UNCHANGED <<chart_assets, main_pc, main_exc>>
                        ELSE /\ chart_assets' = chart_assets + charts
                             /\ main_degraded' = main_degraded \cup row.fallback \cup skipped
                             /\ IF c1 = "OSError" \/ c2 = "OSError"
                                THEN /\ Abort("OSError", "generate_comparison_chart")
                                     /\ UNCHANGED main_idx
                                ELSE /\ main_idx' = main_idx + 1
                                     /\ UNCHANGED <<main_pc, main_exc>>
    /\ UNCHANGED <<config, args, recent_ipos, upcoming_ipos, upcoming_rows,
                   report_written, email_sent>>

\* the recent loop is exhausted
EndRecentLoop ==
    /\ main_pc = "recent"
    /\ UNCHANGED main_calls
    /\ main_idx = Len(recent_ipos)
    /\ main_pc' = "upcoming"
    /\ main_idx' = 0
    /\ UNCHANGED <<config, args, recent_ipos, upcoming_ipos, recent_rows, upcoming_rows,
                   chart_assets, main_degraded, main_exc, report_written, email_sent>>

\* one iteration of "for upcoming in upcoming_ipos"
ProcessUpcomingIpo ==
    /\ main_pc = "upcoming"
    /\ main_idx < Len(upcoming_ipos)
    /\ LET ipo == upcoming_ipos[main_idx + 1]
       IN \E b \in LlmOutcomes, s \in LlmOutcomes :
             LET row == [has_ticker |-> ipo.has_ticker,
                         fallback |-> Degraded(ipo, b, "ok", s)]
             IN IF ~ipo.has_baseline /\ Escapes(b)
                THEN /\ Abort(b, "generate_baseline")
                     /\ main_calls' = main_calls \cup {"llm", "fatal"}
                     /\ UNCHANGED <<main_idx, upcoming_rows, main_degraded>>
                ELSE IF Escapes(s)
                THEN /\ Abort(s, "generate_upcoming_summary")
                     /\ main_calls' = main_calls \cup {"llm"} \cup FatalIn(ipo, b, s)
                     /\ UNCHANGED <<main_idx, upcoming_rows, main_degraded>>
                ELSE IF ConstructorRaises(UpcomingIpoRowFields, UpcomingRowKwargs)
                THEN /\ Abort("TypeError", "UpcomingIpoRow")
                     /\ main_calls' = main_calls \cup {"llm"} \cup FatalIn(ipo, b, s)
                     /\ UNCHANGED <<main_idx, upcoming_rows, main_degraded>>
                ELSE /\ upcoming_rows' = Append(upcoming_rows, row)
                     /\ main_calls' = main_calls \cup {"llm"} \cup FatalIn(ipo, b, s)
                     /\ main_degraded' = main_degraded \cup row.fallback
                     /\ main_idx' = main_idx + 1
                     /\ UNCHANGED <<main_pc, main_exc>>
    /\ UNCHANGED <<config, args, recent_ipos, upcoming_ipos, recent_rows, chart_assets,
                   report_written, email_sent>>

\* build_email_html and report_path.write_text
WriteReport ==
    /\ main_pc = "upcoming"
    /\ UNCHANGED main_calls
    /\ main_idx = Len(upcoming_ipos)
    /\ report_written' = TRUE
    /\ main_pc' = "email"
    /\ UNCHANGED <<config, args, recent_ipos, upcoming_ipos, main_idx, recent_rows,
                   upcoming_rows, chart_assets, main_degraded, main_exc, email_sent>>

\* the "if not args.no_email" block, send_email included
SendEmail ==
    /\ main_pc = "email"
    /\ UNCHANGED main_calls
    /\ LET email_to == IF args.test_email THEN config.email_to_test ELSE config.email_to
       IN IF args.no_email
          THEN main_pc' = "done" /\ UNCHANGED <<main_exc, email_sent>>
          ELSE IF args.test_email /\ ~email_to
          THEN Abort("ValueError", "EMAIL_TO_TEST") /\ UNCHANGED email_sent
          ELSE IF ~email_to
          THEN Abort("ValueError", "EMAIL_TO") /\ UNCHANGED email_sent
          ELSE IF ~config.gmail
          THEN Abort("ValueError", "send_email") /\ UNCHANGED email_sent
          ELSE \/ main_pc' = "done" /\ email_sent' = TRUE /\ UNCHANGED main_exc
               \/ Abort("SMTPException", "send_email") /\ UNCHANGED email_sent
    /\ UNCHANGED <<config, args, recent_ipos, upcoming_ipos, main_idx, recent_rows,
                   upcoming_rows, chart_assets, main_degraded, report_written>>

InitMain ==
    /\ main_pc = "config"
    /\ config \in Configs
    /\ args \in Args
    /\ recent_ipos = <<>>
    /\ upcoming_ipos = <<>>
    /\ main_idx = 0
    /\ recent_rows = <<>>
    /\ upcoming_rows = <<>>
    /\ chart_assets = 0
    /\ main_degraded = {}
    /\ main_exc = NoError
    /\ report_written = FALSE
    /\ email_sent = FALSE
    /\ main_calls = {}

IdleMain ==
    /\ main_pc = "idle"
    /\ config = [alpha_vantage_key |-> FALSE, openai_api_key |-> FALSE,
                 openai_installed |-> FALSE, gmail |-> FALSE, email_to |-> FALSE,
                 email_to_test |-> FALSE]
    /\ args = [no_email |-> FALSE, test_email |-> FALSE]
    /\ recent_ipos = <<>>
    /\ upcoming_ipos = <<>>
    /\ main_idx = 0
    /\ recent_rows = <<>>
    /\ upcoming_rows = <<>>
    /\ chart_assets = 0
    /\ main_degraded = {}
    /\ main_exc = NoError
    /\ report_written = FALSE
    /\ email_sent = FALSE
    /\ main_calls = {}

-----------------------------------------------------------------------------
(* json.loads and json.dumps on the characters of the model                 *)
(*                                                                          *)
(* The texts of the model are written with the characters of JsonAlphabet.  *)
(* It holds no sign, no "0", no "." and none of the letters of the literals *)
(* (true, false, null, NaN, Infinity) or of an exponent, so that a JSON     *)
(* value over it is an array, an object, a string or a number written with  *)
(* the digits 1 and 2.  A parsed value is a record [k, v]: k is its kind    *)
(* and v the characters of a string, the digits of a number, the values of  *)
(* an array, or the <<key, value>> pairs of an object in insertion order.   *)

JsonAlphabet ==
    {"[", "]", "{", "}", DQ, BS, BT, ",", ":", " ", NL, "1", "2", "a", "x", "h",
     "j", "s", "o", "n"}

DigitChars == {"1", "2"}

\* json.decoder.WHITESPACE
JsonWs == {" ", NL, TAB, "CR"}

\* the control characters a strict decoder rejects inside a string
ControlChars == {NL, TAB, "CR"}

JNone == [k |-> "none", v |-> <<>>]

JFail == [ok |-> FALSE, val |-> JNone, pos |-> 0]

JOk(kind, v, pos) == [ok |-> TRUE, val |-> [k |-> kind, v |-> v], pos |-> pos]

RECURSIVE SkipWs(_, _)
SkipWs(s, i) ==
    IF i <= Len(s) /\ s[i] \in JsonWs THEN SkipWs(s, i + 1) ELSE i

\* py_scanstring from the character after the opening quote
RECURSIVE StrBody(_, _, _)
StrBody(s, i, acc) ==
    IF i > Len(s) THEN JFail
    ELSE IF s[i] = DQ THEN JOk("str", acc, i + 1)
    ELSE IF s[i] = BS
    THEN IF i + 1 > Len(s) THEN JFail
         ELSE IF s[i + 1] \in {DQ, BS, "/"} THEN StrBody(s, i + 2, Append(acc, s[i + 1]))
         ELSE IF s[i + 1] = "n" THEN StrBody(s, i + 2, Append(acc, NL))
         ELSE IF s[i + 1] = "t" THEN StrBody(s, i + 2, Append(acc, TAB))
         ELSE IF s[i + 1] = "r" THEN StrBody(s, i + 2, Append(acc, "CR"))
         ELSE JFail
    ELSE IF s[i] \in ControlChars THEN JFail
    ELSE StrBody(s, i + 1, Append(acc, s[i]))

RECURSIVE NumBody(_, _, _)
NumBody(s, i, acc) ==
    IF i <= Len(s) /\ s[i] \in DigitChars THEN NumBody(s, i + 1, Append(acc, s[i]))
    ELSE JOk("num", acc, i)

\* dict assignment: a repeated key keeps its place and takes the new value
RECURSIVE SetKey(_, _, _)
SetKey(pairs, key, val) ==
    IF pairs = <<>> THEN << <<key, val>> >>
    ELSE IF Head(pairs)[1] = key THEN << <<key, val>> >> \o Tail(pairs)
    ELSE <<Head(pairs)>> \o SetKey(Tail(pairs), key, val)

RECURSIVE ParseValue(_, _)
RECURSIVE ArrItems(_, _, _)
RECURSIVE ObjItems(_, _, _)

\* JSONArray after the first element position
ArrItems(s, i, acc) ==
    LET v == ParseValue(s, i)
        k == SkipWs(s, v.pos)
    IN IF ~v.ok \/ k > Len(s) THEN JFail
       ELSE IF s[k] = "]" THEN JOk("arr", Append(acc, v.val), k + 1)
       ELSE IF s[k] = "," THEN ArrItems(s, SkipWs(s, k + 1), Append(acc, v.val))
       ELSE JFail

\* JSONObject at the opening quote of a key
ObjItems(s, i, acc) ==
    IF i > Len(s) \/ s[i] # DQ THEN JFail
    ELSE LET key == StrBody(s, i + 1, <<>>)
             c == SkipWs(s, key.pos)
         IN IF ~key.ok \/ c > Len(s) \/ s[c] # ":" THEN JFail
            ELSE LET v == ParseValue(s, SkipWs(s, c + 1))
                     m == SkipWs(s, v.pos)
                 IN IF ~v.ok \/ m > Len(s) THEN JFail
                    ELSE IF s[m] = "}"
                    THEN JOk("obj", SetKey(acc, key.val.v, v.val), m + 1)
                    ELSE IF s[m] = ","
                    THEN ObjItems(s, SkipWs(s, m + 1), SetKey(acc, key.val.v, v.val))
                    ELSE JFail

\* scan_once
ParseValue(s, i) ==
    IF i > Len(s) THEN JFail
    ELSE IF s[i] = DQ THEN StrBody(s, i + 1, <<>>)
    ELSE IF s[i] = "["
    THEN LET j == SkipWs(s, i + 1)
         IN IF j <= Len(s) /\ s[j] = "]" THEN JOk("arr", <<>>, j + 1)
            ELSE ArrItems(s, j, <<>>)
    ELSE IF s[i] = "{"
    THEN LET j == SkipWs(s, i + 1)
         IN IF j <= Len(s) /\ s[j] = "}" THEN JOk("obj", <<>>, j + 1)
            ELSE ObjItems(s, j, <<>>)
    ELSE IF s[i] \in DigitChars THEN NumBody(s, i, <<>>)
    ELSE JFail

\* json.loads: one value, surrounded by whitespace only; JNone on JSONDecodeError
json_loads(s) ==
    LET v == ParseValue(s, SkipWs(s, 1))
    IN IF v.ok /\ SkipWs(s, v.pos) = Len(s) + 1 THEN v.val ELSE JNone

\* encode_basestring_ascii without the quotes
RECURSIVE EscapeChars(_)
EscapeChars(cs) ==
    IF cs = <<>> THEN <<>>
    ELSE (CASE Head(cs) = DQ -> <<BS, DQ>>
            [] Head(cs) = BS -> <<BS, BS>>
            [] Head(cs) = NL -> <<BS, "n">>
            [] Head(cs) = TAB -> <<BS, "t">>
            [] Head(cs) = "CR" -> <<BS, "r">>
            [] OTHER -> <<Head(cs)>>) \o EscapeChars(Tail(cs))

\* the newline and the indentation that json.dumps(..., indent=2) writes
\* before an element at nesting level
NewlineIndent(level) == <<NL>> \o [i \in 1..(2 * level) |-> " "]

RECURSIVE Dump(_, _)
RECURSIVE DumpItems(_, _)
RECURSIVE DumpPairs(_, _)

\* the elements of an array, one per line
DumpItems(vs, level) ==
    IF vs = <<>> THEN <<>>
    ELSE NewlineIndent(level) \o Dump(Head(vs), level)
         \o (IF Len(vs) > 1 THEN <<",">> ELSE <<>>) \o DumpItems(Tail(vs), level)

\* the members of an object, one "key": value per line
DumpPairs(ps, level) ==
    IF ps = <<>> THEN <<>>
    ELSE NewlineIndent(level) \o <<DQ>> \o EscapeChars(Head(ps)[1]) \o <<DQ, ":", " ">>
         \o Dump(Head(ps)[2], level)
         \o (IF Len(ps) > 1 THEN <<",">> ELSE <<>>) \o DumpPairs(Tail(ps), level)

Dump(x, level) ==
    CASE x.k = "str" -> <<DQ>> \o EscapeChars(x.v) \o <<DQ>>
      [] x.k = "num" -> x.v
      [] x.k = "arr" ->
            IF x.v = <<>> THEN <<"[", "]">>
            ELSE <<"[">> \o DumpItems(x.v, level + 1) \o NewlineIndent(level) \o <<"]">>
      [] x.k = "obj" ->
            IF x.v = <<>> THEN <<"{", "}">>
            ELSE <<"{">> \o DumpPairs(x.v, level + 1) \o NewlineIndent(level) \o <<"}">>

\* json.dumps(payload, indent=2), the serialization write_json uses
json_dumps(x) == Dump(x, 0)

-----------------------------------------------------------------------------
(* extract_json_block *)

Fence == <<BT, BT, BT>>

JsonTag == <<"j", "s", "o", "n">>

(* re.findall(r'```(?:json)?\s*\n?([\s\S]*?)\n?```', text): the groups of   *)
(* the non-overlapping matches from position from on.  A match opens at the *)
(* first fence, takes the tag "json" when it follows, and closes at the     *)
(* first fence after that; the search resumes behind the closing fence.     *)
(* The whitespace the pattern leaves out of the group is left in: the       *)
(* caller strips every group.                                               *)
RECURSIVE FenceMatches(_, _)
FenceMatches(s, from) ==
    LET p == Find(s, Fence, from)
        c == IF p + 6 <= Len(s) /\ SubSeq(s, p + 3, p + 6) = JsonTag THEN p + 7 ELSE p + 3
        q == IF p = 0 THEN 0 ELSE Find(s, Fence, c)
    IN IF p = 0 \/ q = 0 THEN <<>>
       ELSE <<SubSeq(s, c, q - 1)>> \o FenceMatches(s, q + 3)

\* the fenced candidate: match.strip(), parsed when it opens with a brace or bracket
FenceValue(match) ==
    LET m == Strip(match, Whitespace)
    IN IF StartsWith(m, <<"{">>) \/ StartsWith(m, <<"[">>) THEN json_loads(m) ELSE JNone

\* "if not text: return None", then the findall
BeginExtract ==
    /\ json_pc = "begin"
    /\ IF text = <<>>
       THEN /\ json_result' = JNone
            /\ json_pc' = "done"
            /\ UNCHANGED matches
       ELSE /\ matches' = FenceMatches(text, 1)
            /\ json_pc' = "fences"
            /\ UNCHANGED json_result
    /\ UNCHANGED <<text, match_idx, start, open_char, idx, depth, in_string, escape_next,
                   scan_end, json_round, first_result>>

\* one iteration of "for match in matches"
TryFence ==
    /\ json_pc = "fences"
    /\ match_idx < Len(matches)
    /\ LET value == FenceValue(matches[match_idx + 1])
       IN IF value # JNone
          THEN /\ json_result' = value
               /\ json_pc' = "done"
               /\ UNCHANGED match_idx
          ELSE /\ match_idx' = match_idx + 1
               /\ UNCHANGED <<json_result, json_pc>>
    /\ UNCHANGED <<text, matches, start, open_char, idx, depth, in_string, escape_next,
                   scan_end, json_round, first_result>>

\* the earlier of text.find("{") and text.find("["); 0 when there is neither
EarliestOpen(s) ==
    LET start_obj == Find(s, <<"{">>, 1)
        start_arr == Find(s, <<"[">>, 1)
    IN IF start_obj = 0 THEN start_arr
       ELSE IF start_arr = 0 THEN start_obj
       ELSE IF start_arr < start_obj THEN start_arr ELSE start_obj

\* no fenced block parsed: choose where the raw scan starts
BeginScan ==
    /\ json_pc = "fences"
    /\ match_idx = Len(matches)
    /\ IF EarliestOpen(text) = 0
       THEN /\ json_result' = JNone
            /\ json_pc' = "done"
            /\ UNCHANGED <<start, open_char, idx>>
       ELSE /\ start' = EarliestOpen(text)
            /\ open_char' = text[EarliestOpen(text)]
            /\ idx' = EarliestOpen(text)
            /\ json_pc' = "scan"
            /\ UNCHANGED json_result
    /\ depth' = 0
    /\ in_string' = FALSE
    /\ escape_next' = FALSE
    /\ scan_end' = 0
    /\ UNCHANGED <<text, matches, match_idx, json_round, first_result>>

CloseChar(open) == IF open = "[" THEN "]" ELSE "}"

(* The body of "for idx in range(start, len(text))" on character ch: the    *)
(* scan state after it, and whether the loop breaks.                        *)
ScanStepCountingInStrings(st, ch, open) ==
    IF st.escape_next THEN [st EXCEPT !.escape_next = FALSE]
    ELSE IF ch = BS /\ st.in_string THEN [st EXCEPT !.escape_next = TRUE]
    ELSE IF ch = DQ THEN [st EXCEPT !.in_string = ~st.in_string]
    ELSE IF ch = open THEN [st EXCEPT !.depth = st.depth + 1]
    ELSE IF ch = CloseChar(open)
    THEN [st EXCEPT !.depth = st.depth - 1, !.brk = (st.depth - 1 = 0)]
    ELSE st
ScanStep(st, ch, open) ==
    IF st.escape_next THEN [st EXCEPT !.escape_next = FALSE]
    ELSE IF ch = BS /\ st.in_string THEN [st EXCEPT !.escape_next = TRUE]
    ELSE IF ch = DQ THEN [st EXCEPT !.in_string = ~st.in_string]
    ELSE IF st.in_string THEN st
    ELSE IF ch = open THEN [st EXCEPT !.depth = st.depth + 1]
    ELSE IF ch = CloseChar(open)
    THEN [st EXCEPT !.depth = st.depth - 1, !.brk = (st.depth - 1 = 0)]
    ELSE st

\* one iteration of the scan loop
ScanChar ==
    /\ json_pc = "scan"
    /\ idx <= Len(text)
    /\ LET st == ScanStep([depth |-> depth, in_string |-> in_string,
                           escape_next |-> escape_next, brk |-> FALSE],
                          text[idx], open_char)
       IN /\ depth' = st.depth
          /\ in_string' = st.in_string
          /\ escape_next' = st.escape_next
          /\ IF st.brk
             THEN /\ scan_end' = idx + 1
                  /\ json_pc' = "parse"
                  /\ UNCHANGED idx
             ELSE /\ idx' = idx + 1
                  /\ UNCHANGED <<scan_end, json_pc>>
    /\ UNCHANGED <<text, matches, match_idx, start, open_char, json_result, json_round,
                   first_result>>

\* the loop ran off the text: "if end is None: return None"
ScanExhausted ==
    /\ json_pc = "scan"
    /\ idx > Len(text)
    /\ json_result' = JNone
    /\ json_pc' = "done"
    /\ UNCHANGED <<text, matches, match_idx, start, open_char, idx, depth, in_string,
                   escape_next, scan_end, json_round, first_result>>

\* raw = text[start:end]; json.loads(raw), None on JSONDecodeError
ParseRaw ==
    /\ json_pc = "parse"
    /\ json_result' = json_loads(SubSeq(text, start, scan_end - 1))
    /\ json_pc' = "done"
    /\ UNCHANGED <<text, matches, match_idx, start, open_char, idx, depth, in_string,
                   escape_next, scan_end, json_round, first_result>>

\* the caller serializes a successful extraction and extracts again
ExtractAgain ==
    /\ json_pc = "done"
    /\ json_round = 1
    /\ json_result # JNone
    /\ first_result' = json_result
    /\ text' = json_dumps(json_result)
    /\ json_round' = 2
    /\ json_pc' = "begin"
    /\ matches' = <<>>
    /\ match_idx' = 0
    /\ start' = 0
    /\ open_char' = ""
    /\ idx' = 0
    /\ depth' = 0
    /\ in_string' = FALSE
    /\ escape_next' = FALSE
    /\ scan_end' = 0
    /\ json_result' = JNone

(* Texts: every text of at most MaxTextLen characters over the characters   *)
(* the scan distinguishes, every concatenation of at most MaxChunks pieces  *)
(* of a model response, and sample responses.                               *)
ScanAlphabet == {"[", "]", "{", "}", DQ, BS, "1"}

ShortTexts == UNION { [1..n -> ScanAlphabet] : n \in 0..MaxTextLen }

Chunks ==
    { Fence, JsonTag, <<NL>>, <<"a", " ">>, <<"[", "1", "]">>, <<"{", "a", "}">>,
      <<"{", DQ, "a", DQ, ":", "1", "}">>, <<DQ>> }

RECURSIVE Concat(_)
Concat(parts) == IF parts = <<>> THEN <<>> ELSE Head(parts) \o Concat(Tail(parts))

ChunkTexts == { Concat(parts) : parts \in UNION { [1..n -> Chunks] : n \in 0..MaxChunks } }

SampleTexts ==
    { \* a fenced array after prose, followed by prose with stray braces
      <<"a", ":", NL>> \o Fence \o JsonTag \o <<NL, "[", "{", DQ, "a", DQ, ":", "1", "}", "]", NL>>
          \o Fence \o <<NL, "x", " ", "{", "h", "}">>,
      \* a fence before an array whose string holds a fenced array
      Fence \o <<"[", DQ>> \o Fence \o <<"[", "1", "]">> \o Fence \o <<DQ, "]">>,
      \* stray braces, then a fenced block whose JSON string holds a fence
      <<"{", "x", "}", NL>> \o Fence \o <<NL, "[", DQ>> \o Fence \o <<DQ, "]", NL>> \o Fence,
      \* the same block without the stray braces
      Fence \o <<NL, "[", DQ>> \o Fence \o <<DQ, "]", NL>> \o Fence,
      \* prose with a bracketed reference number, and with a braced word
      <<"a", "s", " ", "[", "1", "]", " ", "s", "a", "x">>,
      <<"a", "s", " ", "{", "h", "x", "}">>,
      \* an object with an escaped quote and brackets in a string, in prose
      <<"x", " ", "{", DQ, "a", BS, DQ, "]", "}", DQ, ":", " ", "[", "1", ",", "2", "]", "}", " ", "x">>,
      \* a repeated key
      <<"{", DQ, "a", DQ, ":", "1", ",", DQ, "a", DQ, ":", "2", "}">> }

JsonTexts == ShortTexts \cup ChunkTexts \cup SampleTexts

InitJson ==
    /\ json_pc = "begin"
    /\ text \in JsonTexts
    /\ matches = <<>>
    /\ match_idx = 0
    /\ start = 0
    /\ open_char = ""
    /\ idx = 0
    /\ depth = 0
    /\ in_string = FALSE
    /\ escape_next = FALSE
    /\ scan_end = 0
    /\ json_result = JNone
    /\ json_round = 1
    /\ first_result = JNone

IdleJson ==
    /\ json_pc = "idle"
    /\ text = <<>>
    /\ matches = <<>>
    /\ match_idx = 0
    /\ start = 0
    /\ open_char = ""
    /\ idx = 0
    /\ depth = 0
    /\ in_string = FALSE
    /\ escape_next = FALSE
    /\ scan_end = 0
    /\ json_result = JNone
    /\ json_round = 0
    /\ first_result = JNone

-----------------------------------------------------------------------------
(* The disk cache of the IPO lists: _load_or_fetch_recent and               *)
(* _load_or_fetch_upcoming                                                  *)

\* the fields of the record dataclasses; none has a default value
RecentIpoFields ==
    {"name", "ticker", "ipo_date", "ipo_price", "exchange", "ipo_type", "date_kind",
     "date_confidence", "status", "date_note", "source_count", "source_quality",
     "sources"}

UpcomingIpoFields ==
    {"name", "ticker", "expected_date", "date_status", "date_confidence", "date_note",
     "stage", "indicative_price", "price_confidence", "business_summary", "ipo_type",
     "edgar_confirmed", "edgar_note", "source_count", "source_quality", "sources"}

\* the keyword arguments the cache branch passes to the constructors
RecentCacheKwargs == {"name", "ticker", "ipo_date", "ipo_price", "exchange", "sources"}

UpcomingCacheKwargs ==
    {"name", "ticker", "expected_date", "date_status", "indicative_price",
     "price_confidence", "business_summary", "sources"}

\* RecentIpo.to_dict on the fields of the model: the date in ISO format, or None
RecentToDict(ipo) ==
    [ipo EXCEPT !.ipo_date = IF ipo.ipo_date = NoDate THEN NoneDate ELSE IsoDate(ipo.ipo_date)]

\* UpcomingIpo.to_dict copies every field
UpcomingToDict(ipo) == ipo

\* datetime.fromisoformat(...).date() if item.get("ipo_date") else None
FromIsoFormat(value) == IF value = NoneDate THEN NoDate ELSE value.day

\* the record the cache branch of _load_or_fetch_recent asks for
RecentFromCache(item) ==
    [name |-> item.name, ticker |-> item.ticker,
     ipo_date |-> FromIsoFormat(item.ipo_date), sources |-> item.sources]

\* the record the cache branch of _load_or_fetch_upcoming asks for
UpcomingFromCache(item) ==
    [name |-> item.name, ticker |-> item.ticker, expected_date |-> item.expected_date,
     sources |-> item.sources]

\* the items written for a list of records: [ipo.to_dict() for ipo in ...]
ItemsOf(kind, ipos) ==
    [i \in 1..Len(ipos) |->
        IF kind = "recent" THEN RecentToDict(ipos[i]) ELSE UpcomingToDict(ipos[i])]

\* the records the cache branch asks for, one per cached item
RecordsOf(kind, items) ==
    [i \in 1..Len(items) |->
        IF kind = "recent" THEN RecentFromCache(items[i]) ELSE UpcomingFromCache(items[i])]

(* The content of the cache file: no file, text that is not JSON, or a JSON *)
(* object with its window_days (NoWindow when the key is absent) and items. *)
NoWindow == 0

Windows == {7, 30}

MissingFile == [kind |-> "missing", window_days |-> NoWindow, items |-> <<>>]

CorruptFile == [kind |-> "corrupt", window_days |-> NoWindow, items |-> <<>>]

Payload(window_days, items) == [kind |-> "dict", window_days |-> window_days, items |-> items]

\* read_json: None when the file is missing or does not decode
read_json(file) == IF file.kind = "dict" THEN file ELSE MissingFile

\* the test that guards the cache branch
CacheValidIgnoringWindow(refresh, cached, window_days) ==
    /\ ~refresh
    /\ cached.kind = "dict"
    /\ cached.items # <<>>
CacheValid(refresh, cached, window_days) ==
    /\ ~refresh
    /\ cached.kind = "dict"
    /\ cached.window_days = window_days
    /\ cached.items # <<>>

Returned(ipos) == [ok |-> TRUE, ipos |-> ipos, exc |-> ""]

RaisedIn(exc) == [ok |-> FALSE, ipos |-> <<>>, exc |-> exc]

(* One call of a _load_or_fetch function: the cache branch builds the       *)
(* records from the cached items; otherwise the fetch pipeline runs and its *)
(* list is written with the requested window.  A fetch that raises leaves   *)
(* the file as it is.                                                       *)
LoadOrFetch(kind, fields, kwargs, fetchable) ==
    /\ cache_pc = "ready"
    /\ cache_runs < MaxRuns
    /\ \E refresh \in BOOLEAN, window_days \in Windows :
          /\ cache_req' = [refresh |-> refresh, window_days |-> window_days]
          /\ IF CacheValid(refresh, read_json(cache_file), window_days)
             THEN /\ cache_path' = "cache"
                  /\ cache_result' =
                        IF ConstructorRaises(fields, kwargs) THEN RaisedIn("TypeError")
                        ELSE Returned(RecordsOf(kind, read_json(cache_file).items))
                  /\ UNCHANGED <<cache_file, cache_written>>
             ELSE \/ \E ipos \in fetchable :
                        /\ cache_path' = "fetch"
                        /\ cache_file' = Payload(window_days, ItemsOf(kind, ipos))
                        /\ cache_written' = ipos
                        /\ cache_result' = Returned(ipos)
                  \/ /\ cache_path' = "fetch_raised"
                     /\ cache_result' = RaisedIn("SystemExit")
                     /\ UNCHANGED <<cache_file, cache_written>>
    /\ cache_before' = cache_file
    /\ cache_runs' = cache_runs + 1
    /\ UNCHANGED <<cache_pc, cache_kind>>

\* the records a fetch can return: parsed items with distinct tickers
RecentFetchable ==
    LET r == { RecentIpo(RecentItem(Acme, <<"a">>, <<>>, High, 2, IsoDate(7))),
               RecentIpo(RecentItem(Acme, <<"b">>, <<>>, Low, 1, NoneDate)) }
    IN { xs \in UNION { [1..n -> r] : n \in 0..MaxCached } :
            \A i, j \in 1..Len(xs) : xs[i] = xs[j] => i = j }

UpcomingFetchable ==
    LET r == { UpcomingIpo(UpcomingItem(Acme, <<"a">>, <<>>, 2, TRUE, <<>>, Tbd, <<>>)),
               UpcomingIpo(UpcomingItem(Acme, <<"b">>, <<>>, 1, FALSE, <<>>, IsoDate(14), <<>>)) }
    IN { xs \in UNION { [1..n -> r] : n \in 0..MaxCached } :
            \A i, j \in 1..Len(xs) : xs[i] = xs[j] => i = j }

_load_or_fetch_recent ==
    /\ cache_kind = "recent"
    /\ LoadOrFetch("recent", RecentIpoFields, RecentCacheKwargs, RecentFetchable)

_load_or_fetch_upcoming ==
    /\ cache_kind = "upcoming"
    /\ LoadOrFetch("upcoming", UpcomingIpoFields, UpcomingCacheKwargs, UpcomingFetchable)

\* the file before the first run: absent, not JSON, an empty object, or what
\* an earlier run wrote
InitCache ==
    /\ cache_pc = "ready"
    /\ cache_kind \in {"recent", "upcoming"}
    /\ \/ /\ cache_file \in {MissingFile, CorruptFile, Payload(NoWindow, <<>>)}
          /\ cache_written = <<>>
       \/ \E window_days \in Windows :
             \/ /\ cache_kind = "recent"
                /\ cache_written \in RecentFetchable
                /\ cache_file = Payload(window_days, ItemsOf("recent", cache_written))
             \/ /\ cache_kind = "upcoming"
                /\ cache_written \in UpcomingFetchable
                /\ cache_file = Payload(window_days, ItemsOf("upcoming", cache_written))
    /\ cache_before = MissingFile
    /\ cache_req = [refresh |-> FALSE, window_days |-> NoWindow]
    /\ cache_path = ""
    /\ cache_result = Returned(<<>>)
    /\ cache_runs = 0

IdleCache ==
    /\ cache_pc = "idle"
    /\ cache_kind = ""
    /\ cache_file = MissingFile
    /\ cache_before = MissingFile
    /\ cache_req = [refresh |-> FALSE, window_days |-> NoWindow]
    /\ cache_path = ""
    /\ cache_result = Returned(<<>>)
    /\ cache_written = <<>>
    /\ cache_runs = 0

-----------------------------------------------------------------------------
(* generate_comparison_chart                                                *)
(*                                                                          *)
(* A date is a day number and a series is the increasing sequence of its    *)
(* dates, as fetch_daily_adjusted returns it (sorted, never empty).         *)

Max(a, b) == IF a > b THEN a ELSE b

\* request.purchase_date is None
NoPurchase == NoDate

\* series.index[-1]
LastDate(s) == s[Len(s)]

\* the later of the two first dates, or the purchase date when it is later
EarliestAvailableIgnoringBenchmark(s, b, purchase_date) ==
    IF purchase_date # NoPurchase /\ purchase_date > s[1] THEN purchase_date ELSE s[1]
EarliestAvailable(s, b, purchase_date) ==
    LET earliest == Max(s[1], b[1])
    IN IF purchase_date # NoPurchase /\ purchase_date > earliest THEN purchase_date
       ELSE earliest

\* series.loc[start_date:]
SliceFrom(s, from) == SelectSeq(s, LAMBDA d : d >= from)

\* the test before the insufficient-data error
InsufficientDataStockOnly(stock, bench) == stock = <<>>
InsufficientData(stock, bench) == stock = <<>> \/ bench = <<>>

\* the labels: "since listing", or a number of days followed by "d"
SinceListing == [text |-> "since listing", days |-> 0]

DaysLabel(n) == [text |-> "d", days |-> n]

NoLabel == [text |-> "", days |-> 0]

WindowLabelStrictlyAfter(actual, window_days, purchase_date, from) ==
    IF actual < window_days
    THEN IF purchase_date # NoPurchase /\ purchase_date > from THEN SinceListing
         ELSE DaysLabel(actual)
    ELSE DaysLabel(window_days)
WindowLabel(actual, window_days, purchase_date, from) ==
    IF actual < window_days
    THEN IF purchase_date # NoPurchase /\ purchase_date >= from THEN SinceListing
         ELSE DaysLabel(actual)
    ELSE DaysLabel(window_days)

\* from the head of the function to the insufficient-data test
ComputeWindow ==
    /\ chart_pc = "start"
    /\ LET purchase == request.purchase_date
           last == LastDate(series)
           earliest == EarliestAvailable(series, benchmark_series, purchase)
           from == Max(last - request.window_days, earliest)
       IN /\ end_date' = last
          /\ requested_start_date' = last - request.window_days
          /\ earliest_available' = earliest
          /\ start_date' = from
          /\ stock_slice' = SliceFrom(series, from)
          /\ bench_slice' = SliceFrom(benchmark_series, from)
          /\ IF InsufficientData(SliceFrom(series, from), SliceFrom(benchmark_series, from))
             THEN chart_pc' = "raised" /\ chart_exc' = "ValueError"
             ELSE chart_pc' = "label" /\ UNCHANGED chart_exc
    /\ UNCHANGED <<series, benchmark_series, request, actual_days, window_label, plotted,
                   saved>>

\* actual_days and window_label
ChooseLabelFromRequestedStart ==
    /\ chart_pc = "label"
    /\ actual_days' = end_date - start_date
    /\ window_label' = WindowLabel(end_date - start_date, request.window_days,
                                   request.purchase_date, requested_start_date)
    /\ chart_pc' = "plot"
    /\ UNCHANGED <<series, benchmark_series, request, end_date, requested_start_date,
                   earliest_available, start_date, stock_slice, bench_slice, chart_exc,
                   plotted, saved>>
ChooseLabel ==
    /\ chart_pc = "label"
    /\ actual_days' = end_date - start_date
    /\ window_label' = WindowLabel(end_date - start_date, request.window_days,
                                   request.purchase_date, start_date)
    /\ chart_pc' = "plot"
    /\ UNCHANGED <<series, benchmark_series, request, end_date, requested_start_date,
                   earliest_available, start_date, stock_slice, bench_slice, chart_exc,
                   plotted, saved>>

\* the figure: the two lines, the title, the axis, the purchase marker
Plot ==
    /\ chart_pc = "plot"
    /\ plotted' = TRUE
    /\ chart_pc' = "save"
    /\ UNCHANGED <<series, benchmark_series, request, end_date, requested_start_date,
                   earliest_available, start_date, stock_slice, bench_slice, actual_days,
                   window_label, chart_exc, saved>>

\* plt.savefig(request.output_path) and the return
Save ==
    /\ chart_pc = "save"
    /\ saved' = TRUE
    /\ chart_pc' = "returned"
    /\ UNCHANGED <<series, benchmark_series, request, end_date, requested_start_date,
                   earliest_available, start_date, stock_slice, bench_slice, actual_days,
                   window_label, chart_exc, plotted>>

\* the increasing sequences of dates in 1..MaxDay that are not empty
DateSeries ==
    { s \in UNION { [1..n -> 1..MaxDay] : n \in 1..MaxDay } :
         \A i \in 1..(Len(s) - 1) : s[i] < s[i + 1] }

\* the requested windows, in days
ChartWindows == {1, 3}

\* no purchase date, or one from before the first day to after the last
PurchaseDates == {NoPurchase} \cup 0..(MaxDay + 1)

InitChart ==
    /\ chart_pc = "start"
    /\ series \in DateSeries
    /\ benchmark_series \in DateSeries
    /\ request \in [window_days : ChartWindows, purchase_date : PurchaseDates]
    /\ end_date = NoDate
    /\ requested_start_date = NoDate
    /\ earliest_available = NoDate
    /\ start_date = NoDate
    /\ stock_slice = <<>>
    /\ bench_slice = <<>>
    /\ actual_days = 0
    /\ window_label = NoLabel
    /\ chart_exc = ""
    /\ plotted = FALSE
    /\ saved = FALSE

IdleChart ==
    /\ chart_pc = "idle"
    /\ series = <<>>
    /\ benchmark_series = <<>>
    /\ request = [window_days |-> 0, purchase_date |-> NoPurchase]
    /\ end_date = NoDate
    /\ requested_start_date = NoDate
    /\ earliest_available = NoDate
    /\ start_date = NoDate
    /\ stock_slice = <<>>
    /\ bench_slice = <<>>
    /\ actual_days = 0
    /\ window_label = NoLabel
    /\ chart_exc = ""
    /\ plotted = FALSE
    /\ saved = FALSE

-----------------------------------------------------------------------------
(* compute_ipo_performance                                                  *)
(*                                                                          *)
(* A price is a natural number, NoPrice when it is None.  A series is None  *)
(* or a sequence of points [date, value] in increasing date order.  A       *)
(* return is an exact fraction in lowest terms with a positive denominator, *)
(* Absent when it is None; rounding of the floating-point division is not   *)
(* modelled.                                                                *)

NoPrice == -1

Absent == [num |-> 0, den |-> 0]

Abs(n) == IF n < 0 THEN -n ELSE n

RECURSIVE Gcd(_, _)
Gcd(a, b) == IF b = 0 THEN a ELSE Gcd(b, a % b)

\* n / d for d > 0
Ratio(n, d) == [num |-> n \div Gcd(Abs(n), d), den |-> d \div Gcd(Abs(n), d)]

NoSeries == [present |-> FALSE, points |-> <<>>]

SomeSeries(points) == [present |-> TRUE, points |-> points]

\* the first value dated at or after target, None when there is none
_price_strictly_after(points, target) ==
    LET candidates == SelectSeq(points, LAMBDA pt : pt.date > target)
    IN IF points = <<>> \/ candidates = <<>> THEN NoPrice ELSE candidates[1].value
_price_on_or_after(points, target) ==
    LET candidates == SelectSeq(points, LAMBDA pt : pt.date >= target)
    IN IF points = <<>> \/ candidates = <<>> THEN NoPrice ELSE candidates[1].value

\* the return over the trailing days, None without a start value
_price_return_strictly_before(points, days) ==
    LET cut == points[Len(points)].date - days
        prior == SelectSeq(points, LAMBDA pt : pt.date < cut)
        start_price == prior[Len(prior)].value
        end_price == points[Len(points)].value
    IN IF points = <<>> THEN Absent
       ELSE IF prior = <<>> THEN Absent
       ELSE IF start_price = 0 THEN Absent
       ELSE Ratio(end_price - start_price, start_price)
_price_return(points, days) ==
    LET cut == points[Len(points)].date - days
        prior == SelectSeq(points, LAMBDA pt : pt.date <= cut)
        start_price == prior[Len(prior)].value
        end_price == points[Len(points)].value
    IN IF points = <<>> THEN Absent
       ELSE IF prior = <<>> THEN Absent
       ELSE IF start_price = 0 THEN Absent
       ELSE Ratio(end_price - start_price, start_price)

\* perf_since_ipo: computed when ipo_price is truthy and current_price is not None
PerfSinceIpoOverCurrent(price, current) ==
    IF price # NoPrice /\ price # 0 /\ current # NoPrice /\ current # 0
    THEN Ratio(current - price, current)
    ELSE Absent
PerfSinceIpo(price, current) ==
    IF price # NoPrice /\ price # 0 /\ current # NoPrice
    THEN Ratio(current - price, price)
    ELSE Absent

\* current_price and the resolved ipo_price
ResolvePrices ==
    /\ perf_pc = "start"
    /\ current_price' =
          IF perf_series.present /\ perf_series.points # <<>>
          THEN perf_series.points[Len(perf_series.points)].value
          ELSE NoPrice
    /\ ipo_price' =
          IF /\ perf_ipo.ipo_price = NoPrice
             /\ perf_ipo.ipo_date # NoDate
             /\ perf_series.present
             /\ perf_series.points # <<>>
          THEN _price_on_or_after(perf_series.points, perf_ipo.ipo_date)
          ELSE perf_ipo.ipo_price
    /\ perf_pc' = "returns"
    /\ UNCHANGED <<perf_ipo, perf_series, perf_since_ipo, return_1w, return_1m>>

\* perf_since_ipo, the two trailing returns and the result
ComputeReturns ==
    /\ perf_pc = "returns"
    /\ perf_since_ipo' = PerfSinceIpo(ipo_price, current_price)
    /\ return_1w' = IF perf_series.present THEN _price_return(perf_series.points, 7)
                    ELSE Absent
    /\ return_1m' = IF perf_series.present THEN _price_return(perf_series.points, 30)
                    ELSE Absent
    /\ perf_pc' = "returned"
    /\ UNCHANGED <<perf_ipo, perf_series, ipo_price, current_price>>

\* the dates of the price points: a week and a month apart, and off by days
PerfDays == {1, 3, 10, 33, 40}

PerfValues == {0, 20, 25}

PerfPoints == [date : PerfDays, value : PerfValues]

PerfSeries ==
    {NoSeries}
    \cup { SomeSeries(pts) : pts \in
              { xs \in UNION { [1..n -> PerfPoints] : n \in 0..MaxPoints } :
                   \A i \in 1..(Len(xs) - 1) : xs[i].date < xs[i + 1].date } }

PerfIpos == [ipo_price : {NoPrice, 0, 20}, ipo_date : {NoDate, 3, 5, 41}]

InitPerf ==
    /\ perf_pc = "start"
    /\ perf_ipo \in PerfIpos
    /\ perf_series \in PerfSeries
    /\ ipo_price = NoPrice
    /\ current_price = NoPrice
    /\ perf_since_ipo = Absent
    /\ return_1w = Absent
    /\ return_1m = Absent

IdlePerf ==
    /\ perf_pc = "idle"
    /\ perf_ipo = [ipo_price |-> NoPrice, ipo_date |-> NoDate]
    /\ perf_series = NoSeries
    /\ ipo_price = NoPrice
    /\ current_price = NoPrice
    /\ perf_since_ipo = Absent
    /\ return_1w = Absent
    /\ return_1m = Absent

-----------------------------------------------------------------------------
(* The calls of one run to the price/news API: fetch_daily_adjusted_batch   *)
(* and the news fetch inside the loop over the recent IPOs of main.  Time   *)
(* is counted in tenths of a second; clock is time.monotonic().             *)

\* min_interval = 0.2
min_interval == 2

CallTimes == 0..MaxCallTime

WorkTimes == 0..MaxWork

\* the moment the guarded call starts: "elapsed = time.monotonic() - last;
\* if elapsed < min_interval: time.sleep(min_interval - elapsed)"
StartOfCall(at, last) ==
    IF at - last < min_interval THEN at + (min_interval - (at - last)) ELSE at

Call(api, from, to, ok) == [api |-> api, start |-> from, end |-> to, ok |-> ok]

\* one iteration of "for i, symbol in enumerate(symbols_list, 1)"; a failed
\* fetch raises out of the batch and out of main
FetchSymbol ==
    /\ av_pc = "batch"
    /\ batch_left > 0
    /\ \E d \in CallTimes, ok \in BOOLEAN :
          LET begin == StartOfCall(clock, last_call)
              finish == begin + d
          IN /\ av_calls' = Append(av_calls, Call("prices", begin, finish, ok))
             /\ clock' = finish
             /\ IF ok
                THEN /\ last_call' = finish
                     /\ batch_left' = batch_left - 1
                     /\ av_pc' = "batch"
                ELSE /\ av_pc' = "aborted"
                     /\ UNCHANGED <<last_call, batch_left>>
    /\ UNCHANGED <<last_av_call, av_ipos, av_idx>>

\* the batch returns; main sets last_av_call = 0.0 and enters the loop
BeginNewsLoop ==
    /\ av_pc = "batch"
    /\ batch_left = 0
    /\ \E w \in WorkTimes : clock' = clock + w
    /\ last_av_call' = 0
    /\ av_pc' = IF av_ipos = <<>> THEN "done" ELSE "loop"
    /\ UNCHANGED <<last_call, av_ipos, batch_left, av_idx, av_calls>>

\* one iteration of "for ipo in recent_ipos": performance and baseline,
\* the guarded news fetch for an IPO with a ticker, summary and charts
ProcessIpoNews ==
    /\ av_pc = "loop"
    /\ av_idx < Len(av_ipos)
    /\ \E w1, w2 \in WorkTimes :
          LET arrive == clock + w1
          IN IF av_ipos[av_idx + 1]
             THEN \E d \in CallTimes, ok \in BOOLEAN :
                     LET begin == StartOfCall(arrive, last_av_call)
                         finish == begin + d
                     IN /\ av_calls' = Append(av_calls, Call("news", begin, finish, ok))
                        /\ last_av_call' = IF ok THEN finish ELSE last_av_call
                        /\ clock' = finish + w2
             ELSE /\ clock' = arrive + w2
                  /\ UNCHANGED <<last_av_call, av_calls>>
    /\ av_idx' = av_idx + 1
    /\ av_pc' = IF av_idx + 1 = Len(av_ipos) THEN "done" ELSE "loop"
    /\ UNCHANGED <<last_call, av_ipos, batch_left>>

\* the recent IPOs of the run: TRUE for an IPO that has a ticker
TickerFlags == UNION { [1..n -> BOOLEAN] : n \in 0..MaxIpos }

\* the batch fetches every ticker and the benchmark
InitRate ==
    /\ av_pc = "batch"
    /\ clock \in {min_interval, min_interval + 1}
    /\ last_call = 0
    /\ last_av_call = 0
    /\ av_ipos \in TickerFlags
    /\ batch_left = Cardinality({ i \in 1..Len(av_ipos) : av_ipos[i] }) + 1
    /\ av_idx = 0
    /\ av_calls = <<>>

IdleRate ==
    /\ av_pc = "idle"
    /\ clock = 0
    /\ last_call = 0
    /\ last_av_call = 0
    /\ av_ipos = <<>>
    /\ batch_left = 0
    /\ av_idx = 0
    /\ av_calls = <<>>

-----------------------------------------------------------------------------
(* generate_comparison_chart: the tick formatter of a chart whose span is   *)
(* at most 30 days.  A calendar date is a record of month and day; the      *)
(* dates run from December of one year to February of the next.             *)

Date(month, day) == [month |-> month, day |-> day]

\* the position of a date on the time axis (December and January have 31 days)
Ord(d) ==
    (CASE d.month = 12 -> 0 [] d.month = 1 -> 31 [] OTHER -> 62) + d.day

NoJanuary == Date(0, 0)

\* min(jan_dates)
MinDate(ds) == CHOOSE d \in ds : \A e \in ds : Ord(d) <= Ord(e)

\* dt.strftime(fmt)
Strftime(dt, fmt) == [fmt |-> fmt, date |-> dt]

\* "if actual_days <= 30": has_january, jan_dates and the flag are computed
\* and the formatter is installed
SetMajorFormatter ==
    /\ tick_pc = "axis"
    /\ LET jan_dates == { d \in stock_index : d.month = 1 }
       IN /\ has_january' = (jan_dates # {})
          /\ first_jan_date_obj' = IF jan_dates # {} THEN MinDate(jan_dates) ELSE NoJanuary
    /\ year_shown_flag' = FALSE
    /\ tick_pc' = "ticks"
    /\ UNCHANGED <<stock_index, start_date_obj, end_date_obj, tick_labels>>

\* the formatter installed when the plotted dates hold a January date;
\* yields the label and the new value of year_shown_flag[0]
format_date_with_year(dt, flag) ==
    IF /\ first_jan_date_obj # NoJanuary /\ ~flag /\ dt.month = 1 /\ dt.day <= 15
       /\ Ord(start_date_obj) <= Ord(dt) /\ Ord(dt) <= Ord(end_date_obj)
    THEN [flag |-> TRUE, label |-> Strftime(dt, "%m/%d/%y")]
    ELSE [flag |-> flag, label |-> Strftime(dt, "%m/%d")]

\* the dates the axis may ask the formatter for
TickDates ==
    { Date(12, 30), Date(1, 2), Date(1, 15), Date(1, 16), Date(2, 3) }

\* one call of the installed formatter: format_date_with_year, or
\* mdates.DateFormatter("%m/%d") when no plotted date is in January
FormatTick ==
    /\ tick_pc = "ticks"
    /\ Len(tick_labels) < MaxTicks
    /\ \E dt \in TickDates :
          IF has_january
          THEN LET r == format_date_with_year(dt, year_shown_flag)
               IN /\ year_shown_flag' = r.flag
                  /\ tick_labels' = Append(tick_labels, r.label)
          ELSE /\ tick_labels' = Append(tick_labels, Strftime(dt, "%m/%d"))
               /\ UNCHANGED year_shown_flag
    /\ UNCHANGED <<tick_pc, stock_index, start_date_obj, end_date_obj,
                   has_january, first_jan_date_obj>>

\* a chart of at most 30 days: the plotted dates lie in the window and the
\* window ends on the last of them
InitTick ==
    /\ tick_pc = "axis"
    /\ start_date_obj \in TickDates
    /\ end_date_obj \in TickDates
    /\ Ord(end_date_obj) - Ord(start_date_obj) \in 0..30
    /\ stock_index \in SUBSET TickDates
    /\ end_date_obj \in stock_index
    /\ \A d \in stock_index :
          Ord(start_date_obj) <= Ord(d) /\ Ord(d) <= Ord(end_date_obj)
    /\ has_january = FALSE
    /\ first_jan_date_obj = NoJanuary
    /\ year_shown_flag = FALSE
    /\ tick_labels = <<>>

IdleTick ==
    /\ tick_pc = "idle"
    /\ stock_index = {}
    /\ start_date_obj = NoJanuary
    /\ end_date_obj = NoJanuary
    /\ has_january = FALSE
    /\ first_jan_date_obj = NoJanuary
    /\ year_shown_flag = FALSE
    /\ tick_labels = <<>>

-----------------------------------------------------------------------------
(* generate_recent_summary and generate_upcoming_summary: the summary of    *)
(* the day is kept in the file update_<YYYYMMDD>.md of the identifier.      *)
(* updates maps <<identifier, day>> to the content of that file.            *)

\* the file does not exist
Missing == <<"Missing">>

Identifiers == {"ACME", "Beta"}

UpdateKeys == Identifiers \X (1..MaxToday)

\* load_update: None for a missing file, else the stripped content; None
\* and the empty text are the same to "if existing"
load_update(files, identifier, day) ==
    IF files[<<identifier, day>>] = Missing THEN <<>>
    ELSE Strip(files[<<identifier, day>>], Whitespace)

\* summary = response.text.strip() or baseline
SummaryTextNoFallback(response_text, baseline) == Strip(response_text, Whitespace)
SummaryText(response_text, baseline) ==
    IF Strip(response_text, Whitespace) # <<>>
    THEN Strip(response_text, Whitespace) ELSE baseline

\* call_responses_with_web_search: a response text, an error after the
\* retries, or the fatal exit
ModelTexts == {<<>>, <<" ">>, <<" ", "s", " ">>}

ModelOutcomes ==
    [exc : {""}, text : ModelTexts]
    \cup [exc : {"Exception", "SystemExit"}, text : {<<>>}]

\* the baseline main passes: a thesis text, or one of blanks only
Baselines == {<<"b">>, <<" ">>}

NoSummary == [fn |-> "", identifier |-> "", baseline |-> <<>>,
              out |-> [exc |-> "", text |-> <<>>], summary |-> <<>>, updated |-> FALSE]

\* the body shared by the two generators; "late" is a model call that ends
\* after midnight, so that save_update names the file after the next day.
\* model_calls keeps, for each model call, the identifier, the day the
\* generator was entered and the summary it wrote (Missing when the call
\* raised and nothing was written)
GenerateSummary(fn) ==
    /\ sum_runs < MaxSummaries
    /\ sum_runs' = sum_runs + 1
    /\ \E identifier \in Identifiers, baseline \in Baselines,
          out \in ModelOutcomes, late \in BOOLEAN :
          LET existing == load_update(updates, identifier, sum_today)
              result == [fn |-> fn, identifier |-> identifier, baseline |-> baseline,
                         out |-> out, summary |-> <<>>, updated |-> FALSE]
              saved_on == IF late /\ sum_today < MaxToday THEN sum_today + 1 ELSE sum_today
          IN IF existing # <<>>
             THEN /\ sum_result' = [result EXCEPT !.summary = existing,
                                                  !.out = NoSummary.out]
                  /\ UNCHANGED <<updates, sum_today, model_calls>>
             ELSE /\ sum_today' = saved_on
                  /\ IF out.exc # ""
                     THEN /\ model_calls' = Append(model_calls,
                                [identifier |-> identifier, day |-> sum_today,
                                 saved |-> Missing])
                          /\ sum_result' = result
                          /\ UNCHANGED updates
                     ELSE LET summary == SummaryText(out.text, baseline)
                          IN /\ model_calls' = Append(model_calls,
                                    [identifier |-> identifier, day |-> sum_today,
                                     saved |-> summary])
                             /\ updates' = [updates EXCEPT ![<<identifier, saved_on>>] = summary]
                             /\ sum_result' = [result EXCEPT !.summary = summary,
                                                             !.updated = TRUE]

generate_recent_summary == GenerateSummary("generate_recent_summary")

generate_upcoming_summary == GenerateSummary("generate_upcoming_summary")

\* a day passes between two calls
NextDay ==
    /\ sum_today < MaxToday
    /\ sum_today' = sum_today + 1
    /\ UNCHANGED <<updates, model_calls, sum_result, sum_runs>>

\* the update files found on disk on the first day (none, one of blanks
\* only, an earlier summary); no file is named after a day to come
InitSummary ==
    /\ updates \in [UpdateKeys -> {Missing, <<" ">>, <<"o", "l", "d">>}]
    /\ \A key \in UpdateKeys : key[2] > 1 => updates[key] = Missing
    /\ sum_today = 1
    /\ model_calls = <<>>
    /\ sum_result = NoSummary
    /\ sum_runs = 0

IdleSummary ==
    /\ updates = <<>>
    /\ sum_today = 0
    /\ model_calls = <<>>
    /\ sum_result = NoSummary
    /\ sum_runs = 0

-----------------------------------------------------------------------------
(* Specifications *)

vars == <<recentVars, upcomingVars, retryVars, mainVars, jsonVars, cacheVars, chartVars, perfVars, rateVars, tickVars, summaryVars>>

NextRecent == ParseRecentItem /\ UNCHANGED <<upcomingVars, retryVars, mainVars, jsonVars, cacheVars, chartVars, perfVars, rateVars, tickVars, summaryVars>>

InitSpecRecent == InitRecent /\ IdleUpcoming /\ IdleRetry /\ IdleMain /\ IdleJson /\ IdleCache /\ IdleChart /\ IdlePerf /\ IdleRate /\ IdleTick /\ IdleSummary

SpecRecent == InitSpecRecent /\ [][NextRecent]_vars

NextUpcoming == ParseUpcomingItem /\ UNCHANGED <<recentVars, retryVars, mainVars, jsonVars, cacheVars, chartVars, perfVars, rateVars, tickVars, summaryVars>>

InitSpecUpcoming == IdleRecent /\ InitUpcoming /\ IdleRetry /\ IdleMain /\ IdleJson /\ IdleCache /\ IdleChart /\ IdlePerf /\ IdleRate /\ IdleTick /\ IdleSummary

NextRetry ==
    \/ CallSucceeds /\ UNCHANGED <<recentVars, upcomingVars, mainVars, jsonVars, cacheVars, chartVars, perfVars, rateVars, tickVars, summaryVars>>
    \/ CallFails /\ UNCHANGED <<recentVars, upcomingVars, mainVars, jsonVars, cacheVars, chartVars, perfVars, rateVars, tickVars, summaryVars>>
    \/ Sleep /\ UNCHANGED <<recentVars, upcomingVars, mainVars, jsonVars, cacheVars, chartVars, perfVars, rateVars, tickVars, summaryVars>>

InitSpecRetry == IdleRecent /\ IdleUpcoming /\ InitRetry /\ IdleMain /\ IdleJson /\ IdleCache /\ IdleChart /\ IdlePerf /\ IdleRate /\ IdleTick /\ IdleSummary

SpecRetry == InitSpecRetry /\ [][NextRetry]_vars

\* the loop is sequential code: a step that can be taken is taken
SpecRetryFair == InitSpecRetry /\ [][NextRetry]_vars /\ WF_vars(NextRetry)

NextMain ==
    \/ LoadConfig /\ UNCHANGED <<recentVars, upcomingVars, retryVars, jsonVars, cacheVars, chartVars, perfVars, rateVars, tickVars, summaryVars>>
    \/ LoadIpoLists /\ UNCHANGED <<recentVars, upcomingVars, retryVars, jsonVars, cacheVars, chartVars, perfVars, rateVars, tickVars, summaryVars>>
    \/ FetchPrices /\ UNCHANGED <<recentVars, upcomingVars, retryVars, jsonVars, cacheVars, chartVars, perfVars, rateVars, tickVars, summaryVars>>
    \/ ProcessRecentIpo /\ UNCHANGED <<recentVars, upcomingVars, retryVars, jsonVars, cacheVars, chartVars, perfVars, rateVars, tickVars, summaryVars>>
    \/ EndRecentLoop /\ UNCHANGED <<recentVars, upcomingVars, retryVars, jsonVars, cacheVars, chartVars, perfVars, rateVars, tickVars, summaryVars>>
    \/ ProcessUpcomingIpo /\ UNCHANGED <<recentVars, upcomingVars, retryVars, jsonVars, cacheVars, chartVars, perfVars, rateVars, tickVars, summaryVars>>
    \/ WriteReport /\ UNCHANGED <<recentVars, upcomingVars, retryVars, jsonVars, cacheVars, chartVars, perfVars, rateVars, tickVars, summaryVars>>
    \/ SendEmail /\ UNCHANGED <<recentVars, upcomingVars, retryVars, jsonVars, cacheVars, chartVars, perfVars, rateVars, tickVars, summaryVars>>

InitSpecMain == IdleRecent /\ IdleUpcoming /\ IdleRetry /\ InitMain /\ IdleJson /\ IdleCache /\ IdleChart /\ IdlePerf /\ IdleRate /\ IdleTick /\ IdleSummary

SpecMain == InitSpecMain /\ [][NextMain]_vars

NextJson ==
    \/ BeginExtract /\ UNCHANGED <<recentVars, upcomingVars, retryVars, mainVars, cacheVars, chartVars, perfVars, rateVars, tickVars, summaryVars>>
    \/ TryFence /\ UNCHANGED <<recentVars, upcomingVars, retryVars, mainVars, cacheVars, chartVars, perfVars, rateVars, tickVars, summaryVars>>
    \/ BeginScan /\ UNCHANGED <<recentVars, upcomingVars, retryVars, mainVars, cacheVars, chartVars, perfVars, rateVars, tickVars, summaryVars>>
    \/ ScanChar /\ UNCHANGED <<recentVars, upcomingVars, retryVars, mainVars, cacheVars, chartVars, perfVars, rateVars, tickVars, summaryVars>>
    \/ ScanExhausted /\ UNCHANGED <<recentVars, upcomingVars, retryVars, mainVars, cacheVars, chartVars, perfVars, rateVars, tickVars, summaryVars>>
    \/ ParseRaw /\ UNCHANGED <<recentVars, upcomingVars, retryVars, mainVars, cacheVars, chartVars, perfVars, rateVars, tickVars, summaryVars>>
    \/ ExtractAgain /\ UNCHANGED <<recentVars, upcomingVars, retryVars, mainVars, cacheVars, chartVars, perfVars, rateVars, tickVars, summaryVars>>

InitSpecJson == IdleRecent /\ IdleUpcoming /\ IdleRetry /\ IdleMain /\ InitJson /\ IdleCache /\ IdleChart /\ IdlePerf /\ IdleRate /\ IdleTick /\ IdleSummary

SpecJson == InitSpecJson /\ [][NextJson]_vars

SpecUpcoming == InitSpecUpcoming /\ [][NextUpcoming]_vars

NextCache ==
    \/ _load_or_fetch_recent /\ UNCHANGED <<recentVars, upcomingVars, retryVars, mainVars, jsonVars, chartVars, perfVars, rateVars, tickVars, summaryVars>>
    \/ _load_or_fetch_upcoming /\ UNCHANGED <<recentVars, upcomingVars, retryVars, mainVars, jsonVars, chartVars, perfVars, rateVars, tickVars, summaryVars>>

InitSpecCache == IdleRecent /\ IdleUpcoming /\ IdleRetry /\ IdleMain /\ IdleJson /\ InitCache /\ IdleChart /\ IdlePerf /\ IdleRate /\ IdleTick /\ IdleSummary

SpecCache == InitSpecCache /\ [][NextCache]_vars

NextChart ==
    \/ ComputeWindow /\ UNCHANGED <<recentVars, upcomingVars, retryVars, mainVars, jsonVars, cacheVars, perfVars, rateVars, tickVars, summaryVars>>
    \/ ChooseLabel /\ UNCHANGED <<recentVars, upcomingVars, retryVars, mainVars, jsonVars, cacheVars, perfVars, rateVars, tickVars, summaryVars>>
    \/ Plot /\ UNCHANGED <<recentVars, upcomingVars, retryVars, mainVars, jsonVars, cacheVars, perfVars, rateVars, tickVars, summaryVars>>
    \/ Save /\ UNCHANGED <<recentVars, upcomingVars, retryVars, mainVars, jsonVars, cacheVars, perfVars, rateVars, tickVars, summaryVars>>

InitSpecChart == IdleRecent /\ IdleUpcoming /\ IdleRetry /\ IdleMain /\ IdleJson /\ IdleCache /\ InitChart /\ IdlePerf /\ IdleRate /\ IdleTick /\ IdleSummary

SpecChart == InitSpecChart /\ [][NextChart]_vars

NextPerf ==
    \/ ResolvePrices /\ UNCHANGED <<recentVars, upcomingVars, retryVars, mainVars, jsonVars, cacheVars, chartVars, rateVars, tickVars, summaryVars>>
    \/ ComputeReturns /\ UNCHANGED <<recentVars, upcomingVars, retryVars, mainVars, jsonVars, cacheVars, chartVars, rateVars, tickVars, summaryVars>>

InitSpecPerf == IdleRecent /\ IdleUpcoming /\ IdleRetry /\ IdleMain /\ IdleJson /\ IdleCache /\ IdleChart /\ InitPerf /\ IdleRate /\ IdleTick /\ IdleSummary

SpecPerf == InitSpecPerf /\ [][NextPerf]_vars

NextRate ==
    \/ FetchSymbol /\ UNCHANGED <<recentVars, upcomingVars, retryVars, mainVars, jsonVars, cacheVars, chartVars, perfVars, tickVars, summaryVars>>
    \/ BeginNewsLoop /\ UNCHANGED <<recentVars, upcomingVars, retryVars, mainVars, jsonVars, cacheVars, chartVars, perfVars, tickVars, summaryVars>>
    \/ ProcessIpoNews /\ UNCHANGED <<recentVars, upcomingVars, retryVars, mainVars, jsonVars, cacheVars, chartVars, perfVars, tickVars, summaryVars>>

InitSpecRate == IdleRecent /\ IdleUpcoming /\ IdleRetry /\ IdleMain /\ IdleJson /\ IdleCache /\ IdleChart /\ IdlePerf /\ InitRate /\ IdleTick /\ IdleSummary

SpecRate == InitSpecRate /\ [][NextRate]_vars

NextTick ==
    \/ SetMajorFormatter /\ UNCHANGED <<recentVars, upcomingVars, retryVars, mainVars, jsonVars, cacheVars, chartVars, perfVars, rateVars, summaryVars>>
    \/ FormatTick /\ UNCHANGED <<recentVars, upcomingVars, retryVars, mainVars, jsonVars, cacheVars, chartVars, perfVars, rateVars, summaryVars>>

InitSpecTick == IdleRecent /\ IdleUpcoming /\ IdleRetry /\ IdleMain /\ IdleJson /\ IdleCache /\ IdleChart /\ IdlePerf /\ IdleRate /\ InitTick /\ IdleSummary

SpecTick == InitSpecTick /\ [][NextTick]_vars

NextSummary ==
    \/ generate_recent_summary /\ UNCHANGED <<recentVars, upcomingVars, retryVars, mainVars, jsonVars, cacheVars, chartVars, perfVars, rateVars, tickVars>>
    \/ generate_upcoming_summary /\ UNCHANGED <<recentVars, upcomingVars, retryVars, mainVars, jsonVars, cacheVars, chartVars, perfVars, rateVars, tickVars>>
    \/ NextDay /\ UNCHANGED <<recentVars, upcomingVars, retryVars, mainVars, jsonVars, cacheVars, chartVars, perfVars, rateVars, tickVars>>

InitSpecSummary == IdleRecent /\ IdleUpcoming /\ IdleRetry /\ IdleMain /\ IdleJson /\ IdleCache /\ IdleChart /\ IdlePerf /\ IdleRate /\ IdleTick /\ InitSummary

SpecSummary == InitSpecSummary /\ [][NextSummary]_vars

-----------------------------------------------------------------------------
(* Properties of _parse_recent_items *)

RecentAccepted(i) == ~RecentSkipped(recent_items[i], recent_cutoff)

\* the accepted items read so far that carry ticker t
RecentGroup(t) ==
    { i \in 1..recent_pos : RecentAccepted(i) /\ RecentIpo(recent_items[i]).ticker = t }

\* (source_count, confidence rank) of a is at most that of b, lexicographically
RecentKeyLeq(a, b) ==
    \/ a.source_count < b.source_count
    \/ /\ a.source_count = b.source_count
       /\ ConfidenceRank(a.date_confidence) <= ConfidenceRank(b.date_confidence)

(* C1: the output of _parse_recent_items holds at most one record per       *)
(* normalized ticker, and for every group of accepted items sharing a       *)
(* ticker the surviving record is a member of the group with the maximum    *)
(* source_count and, among those, the maximum date-confidence rank.         *)
C1_RecentDedupKeepsBest ==
    /\ \A j, k \in 1..Len(recent_parsed) :
          j # k /\ recent_parsed[j].ticker # <<>>
              => recent_parsed[j].ticker # recent_parsed[k].ticker
    /\ \A i \in 1..recent_pos :
          LET t == RecentIpo(recent_items[i]).ticker
          IN RecentAccepted(i) /\ t # <<>> =>
                \E j \in 1..Len(recent_parsed) :
                    /\ recent_parsed[j].ticker = t
                    /\ \E m \in RecentGroup(t) : recent_parsed[j] = RecentIpo(recent_items[m])
                    /\ \A m \in RecentGroup(t) :
                          RecentKeyLeq(RecentIpo(recent_items[m]), recent_parsed[j])

\* three accepted items share a ticker and the survivor is not the first of them
C1_Witness ==
    /\ recent_pos = 3
    /\ Len(recent_parsed) = 1
    /\ Cardinality(RecentGroup(recent_parsed[1].ticker)) = 3
    /\ recent_parsed[1] # RecentIpo(recent_items[1])
    /\ recent_parsed[1] # RecentIpo(recent_items[3])

RecentFailsCheck(i) ==
    \/ NormType(recent_items[i].type) = Spac
    \/ _sanitize_name(recent_items[i].name) = <<>>

(* C3: _parse_recent_items never returns a record whose type, trimmed and   *)
(* lower-cased, is "spac", nor one whose sanitized name is empty; an item   *)
(* failing either check is skipped: it adds no record.                      *)
C3_RecentNoSpacNoEmptyName ==
    /\ \A j \in 1..Len(recent_parsed) :
          /\ Lower(recent_parsed[j].ipo_type) # Spac
          /\ recent_parsed[j].name # <<>>
    /\ Len(recent_parsed) <= Cardinality({ i \in 1..recent_pos : ~RecentFailsCheck(i) })

\* a SPAC and an item with an empty name were read and skipped, another was kept
C3_Witness ==
    /\ recent_pos = 3
    /\ \E i \in 1..3 : NormType(recent_items[i].type) = Spac
    /\ \E i \in 1..3 : /\ recent_items[i].name # <<>>
                       /\ _sanitize_name(recent_items[i].name) = <<>>
    /\ Len(recent_parsed) = 1

\* a raw date value written in none of the formats parse_date knows, or
\* written in one of them without naming a calendar day
Unparseable(value) ==
    \/ \A i \in 1..Len(DateFormats) : value.fmt # DateFormats[i]
    \/ value.day = NoDate

(* C21: _parse_recent_items never returns a record whose parsed ipo_date    *)
(* precedes the cutoff; an item whose date matches none of the formats is   *)
(* not rejected for it: unless its name, its type or an earlier record with *)
(* its ticker excludes it, it is appended with a null ipo_date; parsing a   *)
(* date never raises.                                                       *)
C21_RecentCutoffAndNullDates ==
    /\ [](\A j \in 1..Len(recent_parsed) :
             \/ recent_parsed[j].ipo_date = NoDate
             \/ recent_parsed[j].ipo_date >= recent_cutoff)
    /\ [](\A i \in 1..Len(recent_items) :
             /\ parse_date(recent_items[i].ipo_date) # ValueError
             /\ Unparseable(recent_items[i].ipo_date)
                   => parse_date(recent_items[i].ipo_date) = NoDate)
    /\ [][recent_pos < Len(recent_items) =>
            LET item == recent_items[recent_pos + 1]
                ticker == _normalize_ticker(item.ticker)
            IN /\ Unparseable(item.ipo_date)
               /\ _sanitize_name(item.name) # <<>>
               /\ NormType(item.type) # Spac
               /\ ~(\E j \in 1..Len(recent_parsed) :
                       ticker # <<>> /\ recent_parsed[j].ticker = ticker)
               => /\ Len(recent_parsed') = Len(recent_parsed) + 1
                  /\ recent_parsed'[Len(recent_parsed')].ipo_date = NoDate
                  /\ recent_parsed'[Len(recent_parsed')].name = _sanitize_name(item.name)]_vars

\* an item before the cutoff was dropped, and two items with unparseable
\* dates (free text, no date at all) were kept with a null ipo_date
C21_Witness ==
    /\ recent_pos = 3
    /\ \E i \in 1..3 : /\ ~Unparseable(recent_items[i].ipo_date)
                       /\ recent_items[i].ipo_date.day < recent_cutoff
    /\ \E i \in 1..3 : recent_items[i].ipo_date.fmt = "text"
    /\ \E i \in 1..3 : recent_items[i].ipo_date.fmt = ""
    /\ Len(recent_parsed) = 2
    /\ \A j \in 1..2 : recent_parsed[j].ipo_date = NoDate

-----------------------------------------------------------------------------
(* Properties of _parse_upcoming_items *)

(* C2: between two accepted upcoming items that share a dedup key the       *)
(* record with more sources survives: a record with strictly fewer sources  *)
(* never replaces a record with more sources (edgar_confirmed decides only  *)
(* between equal source counts).                                            *)
C2_FewerSourcesNeverReplace ==
    [][\A j \in 1..Len(upcoming_parsed) :
          upcoming_parsed'[j].source_count >= upcoming_parsed[j].source_count]_vars

\* a record with the de-duplication key of the item is already held
UpcomingKeyHeld(item) ==
    LET ticker == _normalize_ticker(item.ticker)
        name_key == NameKey(_sanitize_name(item.name))
    IN \E j \in 1..Len(upcoming_parsed) :
          IF ticker # <<>> THEN upcoming_parsed[j].ticker = ticker
          ELSE /\ upcoming_parsed[j].ticker = <<>>
               /\ NameKey(upcoming_parsed[j].name) = name_key

\* the item passes the name and type filters and its key is new
UpcomingFresh(item) ==
    /\ _sanitize_name(item.name) # <<>>
    /\ NormType(item.type) # Spac
    /\ ~UpcomingKeyHeld(item)

(* C22: _parse_upcoming_items never returns a record whose expected_date    *)
(* parses to a day strictly before today; an item whose expected_date       *)
(* parses to today or later, or does not parse at all, is not dropped for   *)
(* that reason: when its name, type and key admit it, it is appended.       *)
C22_UpcomingPastDatesDropped ==
    /\ [](\A j \in 1..Len(upcoming_parsed) :
             \/ Unparseable(upcoming_parsed[j].expected_date)
             \/ upcoming_parsed[j].expected_date.day >= upcoming_today)
    /\ [][upcoming_pos < Len(upcoming_items) =>
            LET item == upcoming_items[upcoming_pos + 1]
            IN /\ \/ Unparseable(item.expected_date)
                  \/ item.expected_date.day >= upcoming_today
               /\ UpcomingFresh(item)
               => /\ Len(upcoming_parsed') = Len(upcoming_parsed) + 1
                  /\ upcoming_parsed'[Len(upcoming_parsed')].expected_date
                        = item.expected_date]_vars

\* one item dated before today was dropped; one dated today and one with
\* an unparseable date were kept
C22_Witness ==
    /\ upcoming_pos = 3
    /\ \E i \in 1..3 : /\ ~Unparseable(upcoming_items[i].expected_date)
                       /\ upcoming_items[i].expected_date.day < upcoming_today
    /\ Len(upcoming_parsed) = 2
    /\ \E j \in 1..2 : /\ ~Unparseable(upcoming_parsed[j].expected_date)
                       /\ upcoming_parsed[j].expected_date.day = upcoming_today
    /\ \E j \in 1..2 : Unparseable(upcoming_parsed[j].expected_date)

\* the input item carries a non-blank date_note
HasDateNote(item) ==
    item.date_note # PyNone /\ Strip(item.date_note, Whitespace) # <<>>

\* the expected_date of the item parses to a Saturday or a Sunday
OnWeekend(item) ==
    /\ ~Unparseable(item.expected_date)
    /\ item.expected_date.day % 7 \in {5, 6}

\* the records of the output that the current iteration wrote
WrittenNow ==
    { j \in 1..Len(upcoming_parsed') :
          j > Len(upcoming_parsed) \/ upcoming_parsed'[j] # upcoming_parsed[j] }

(* C23: a record written for an item whose expected_date parses to a        *)
(* Saturday or Sunday carries the fixed advisory note when the item had no  *)
(* non-blank date_note, and the item's own (trimmed) note when it had one;  *)
(* a record for a weekday or unparseable date never receives the advisory   *)
(* note.                                                                    *)
C23_WeekendNote ==
    [][upcoming_pos < Len(upcoming_items) =>
          LET item == upcoming_items[upcoming_pos + 1]
          IN \A j \in WrittenNow :
                IF OnWeekend(item)
                THEN IF HasDateNote(item)
                     THEN upcoming_parsed'[j].date_note = Strip(item.date_note, Whitespace)
                     ELSE upcoming_parsed'[j].date_note = WeekendNote
                ELSE upcoming_parsed'[j].date_note # WeekendNote]_vars

\* the de-duplication key: the normalized ticker, or the lower-cased
\* trimmed name when there is no ticker
UpcomingKey(ticker, name) ==
    IF ticker # <<>> THEN <<"ticker", ticker>> ELSE <<"name", NameKey(name)>>

UpcomingItemKey(item) ==
    UpcomingKey(_normalize_ticker(item.ticker), _sanitize_name(item.name))

\* the item passes the name, type and date filters
UpcomingAdmitted(item) ==
    /\ _sanitize_name(item.name) # <<>>
    /\ NormType(item.type) # Spac
    /\ Unparseable(item.expected_date) \/ item.expected_date.day >= upcoming_today

\* the keys of the admitted items among the first n, each once, in the
\* order of first occurrence
RECURSIVE FirstOccurrences(_)
FirstOccurrences(n) ==
    IF n = 0 THEN <<>>
    ELSE LET before == FirstOccurrences(n - 1)
             item == upcoming_items[n]
         IN IF /\ UpcomingAdmitted(item)
               /\ \A j \in 1..Len(before) : before[j] # UpcomingItemKey(item)
            THEN Append(before, UpcomingItemKey(item))
            ELSE before

(* C24: the output of _parse_upcoming_items holds at most one record per    *)
(* normalized ticker and at most one ticker-less record per lower-cased     *)
(* trimmed name, in the order of first occurrence of each key; a later      *)
(* duplicate that has neither more sources nor edgar_confirmed against an   *)
(* unconfirmed record leaves the output as it is, and any other duplicate   *)
(* takes the list position of the record it replaces.                       *)
C24_UpcomingDedup ==
    /\ []([j \in 1..Len(upcoming_parsed) |->
               UpcomingKey(upcoming_parsed[j].ticker, upcoming_parsed[j].name)]
            = FirstOccurrences(upcoming_pos))
    /\ [][upcoming_pos < Len(upcoming_items) =>
            LET item == upcoming_items[upcoming_pos + 1]
            IN \A j \in 1..Len(upcoming_parsed) :
                  LET existing == upcoming_parsed[j]
                  IN /\ UpcomingAdmitted(item)
                     /\ UpcomingKey(existing.ticker, existing.name) = UpcomingItemKey(item)
                     => IF \/ Len(item.sources) > existing.source_count
                           \/ item.edgar_confirmed /\ ~existing.edgar_confirmed
                        THEN /\ Len(upcoming_parsed') = Len(upcoming_parsed)
                             /\ upcoming_parsed'[j].sources = item.sources
                             /\ upcoming_parsed'[j].edgar_confirmed = item.edgar_confirmed
                             /\ upcoming_parsed'[j].name = _sanitize_name(item.name)
                             /\ \A k \in 1..Len(upcoming_parsed) :
                                   k # j => upcoming_parsed'[k] = upcoming_parsed[k]
                        ELSE upcoming_parsed' = upcoming_parsed]_vars

\* the third item replaced the record of the first at position 1, ahead of
\* the record of the second item, which has another key
C24_Witness ==
    /\ upcoming_pos = 3
    /\ Len(upcoming_parsed) = 2
    /\ UpcomingItemKey(upcoming_items[1]) = UpcomingItemKey(upcoming_items[3])
    /\ UpcomingItemKey(upcoming_items[1]) # UpcomingItemKey(upcoming_items[2])
    /\ upcoming_parsed[1] = UpcomingIpo(upcoming_items[3])
    /\ upcoming_parsed[1] # UpcomingIpo(upcoming_items[1])
    /\ upcoming_parsed[2] = UpcomingIpo(upcoming_items[2])

-----------------------------------------------------------------------------
(* Properties of call_responses_with_web_search *)

IsCall(e) == e.ev \in {"responses.create", "chat.completions.create"}

Positions(P(_)) == { i \in 1..Len(retry_log) : P(retry_log[i]) }

CallPositions == Positions(IsCall)

IsSleep(e) == e.ev = "sleep"

SleepPositions == Positions(IsSleep)

\* the waits slept so far, in order
RECURSIVE WaitsOf(_)
WaitsOf(log) ==
    IF log = <<>> THEN <<>>
    ELSE IF IsSleep(Head(log)) THEN <<Head(log).wait>> \o WaitsOf(Tail(log))
    ELSE WaitsOf(Tail(log))

(* C8: while the model call keeps failing transiently it is retried, at     *)
(* most 3 times; the sleep before the first retry is 5 and each later sleep *)
(* doubles the one before; every retry follows a sleep; and when the last   *)
(* permitted call has failed the function raises that last error instead    *)
(* of returning.                                                            *)
C8_RetryWithBackoff ==
    LET waits == WaitsOf(retry_log)
    IN /\ Cardinality(CallPositions) - 1 <= 3
       /\ Cardinality(CallPositions) <= Len(waits) + 1
       /\ \A k \in 1..Len(waits) :
             waits[k] = IF k = 1 THEN 5 ELSE 2 * waits[k - 1]
       /\ \A i \in SleepPositions : i > 1 /\ IsCall(retry_log[i - 1])
                                          /\ ~IsFatal(retry_log[i - 1].exc)
       /\ retry_pc = "raised" =>
             /\ retry_log[Len(retry_log)].ev = "raise"
             /\ retry_log[Len(retry_log)].exc = retry_log[Len(retry_log) - 1].exc
             /\ IsCall(retry_log[Len(retry_log) - 1])
             /\ \A i \in CallPositions : retry_log[i].exc # NoExc
             /\ \A i \in 1..Len(retry_log) : retry_log[i].ev # "return"
       /\ (/\ Cardinality(CallPositions) = _MAX_RETRIES
           /\ retry_pc # "call"
           /\ \A i \in CallPositions :
                 retry_log[i].exc # NoExc /\ ~IsFatal(retry_log[i].exc))
             => retry_pc = "raised"

\* every permitted call failed transiently: two sleeps, then the error is raised
C8_Witness ==
    /\ retry_pc = "raised"
    /\ WaitsOf(retry_log) = <<5, 10>>
    /\ Cardinality(CallPositions) = 3

FatalFailure(e) == IsCall(e) /\ e.exc # NoExc /\ IsFatal(e.exc)

(* C9: an authentication, permission-denied or billing/quota failure of     *)
(* the model call, at any attempt, is followed at once by the fatal exit:   *)
(* no further call and no sleep comes after it.                             *)
C9_FatalAbortsAtOnce ==
    \A i \in 1..Len(retry_log) :
        LET e == retry_log[i]
        IN /\ IsCall(e) /\ e.exc # NoExc
              /\ (e.exc.cls \in {"AuthenticationError", "PermissionDeniedError"}
                  \/ (e.exc.kw_at >= 1 /\ e.exc.kw_at <= MsgLimit))
           => /\ i + 1 = Len(retry_log)
              /\ retry_log[i + 1].ev = "SystemExit"
              /\ retry_pc = "exit"

\* a billing failure on the second attempt, after one backoff sleep
C9_Witness ==
    /\ retry_pc = "exit"
    /\ attempt = 2
    /\ retry_exc.cls = "RateLimitError"
    /\ WaitsOf(retry_log) = <<5>>

\* the function is over: a result, a raised error or a fatal exit
RetryTerminated == retry_pc \in {"returned", "raised", "exit"}

\* the except block does not classify the failure as authentication,
\* permission-denied or billing/quota
Unclassified(e) ==
    /\ IsCall(e) /\ e.exc # NoExc
    /\ e.exc.cls \notin {"AuthenticationError", "PermissionDeniedError"}
    /\ ~(e.exc.kw_at >= 1 /\ e.exc.kw_at <= MsgLimit)

(* C27: every failure of the model call that is not classified as           *)
(* authentication, permission-denied or billing/quota, whatever its class,  *)
(* is handled as transient (a sleep and a retry, or the raise after the     *)
(* last attempt); the call is executed at most 3 times, at most 2 sleeps    *)
(* occur and each is followed by a call, the function returns at the first  *)
(* success, and it always terminates with a result, a raised error or a     *)
(* fatal exit.                                                              *)
C27_RetryBoundedAndTerminates ==
    /\ [](/\ Cardinality(CallPositions) <= 3
          /\ Cardinality(SleepPositions) <= 2
          /\ \A i \in 1..Len(retry_log) :
                LET e == retry_log[i]
                IN /\ Unclassified(e) =>
                         IF i = Len(retry_log) THEN retry_pc = "sleep"
                         ELSE retry_log[i + 1].ev =
                                 IF e.attempt < 3 THEN "sleep" ELSE "raise"
                   /\ IsSleep(e) =>
                         IF i = Len(retry_log) THEN retry_pc = "call"
                         ELSE IsCall(retry_log[i + 1])
                   /\ IsCall(e) /\ e.exc = NoExc =>
                         /\ i + 1 = Len(retry_log)
                         /\ retry_log[i + 1].ev = "return"
                         /\ retry_pc = "returned"
          /\ RetryTerminated =>
                /\ retry_log # <<>>
                /\ retry_log[Len(retry_log)].ev =
                      CASE retry_pc = "returned" -> "return"
                        [] retry_pc = "raised" -> "raise"
                        [] OTHER -> "SystemExit")
    /\ <>RetryTerminated

\* two failures of a non-transient kind were retried and the third call
\* succeeded
C27_Witness ==
    /\ retry_pc = "returned"
    /\ Cardinality(CallPositions) = 3
    /\ Cardinality(SleepPositions) = 2
    /\ \A i \in CallPositions :
          retry_log[i].exc # NoExc => retry_log[i].exc.cls = "BadRequestError"

-----------------------------------------------------------------------------
(* Properties of main *)

\* the causes of an abort outside the two loops: configuration, the loading
\* of the lists, the price batch, the mail transport
FatalCauses ==
    {"load_config", "openai_api_key", "build_openai_client", "fetch_ipos",
     "_load_or_fetch", "fetch_daily_adjusted_batch", "EMAIL_TO", "EMAIL_TO_TEST",
     "send_email"}

(* C10: per-IPO failures that are not fatal never abort the run: an abort   *)
(* inside the two loops comes only from the fatal exit of a model call, and *)
(* when the report is written every recent and every upcoming IPO has       *)
(* exactly one row.                                                         *)
C10_PerIpoFailuresDoNotAbort ==
    /\ main_pc = "aborted" =>
          \/ main_exc.at \in FatalCauses
          \/ main_exc.cls = "SystemExit"
    /\ report_written =>
          /\ Len(recent_rows) = Len(recent_ipos)
          /\ Len(upcoming_rows) = Len(upcoming_ipos)
    /\ (main_pc = "upcoming" /\ main_idx = Len(upcoming_ipos)) =>
          /\ Len(recent_rows) = Len(recent_ipos)
          /\ Len(upcoming_rows) = Len(upcoming_ipos)

\* required configuration is missing: the model API key, or the recipient
\* list of the mode in use when an email is requested
MissingRequiredConfig ==
    \/ ~config.openai_api_key
    \/ /\ ~args.no_email
       /\ ~(IF args.test_email THEN config.email_to_test ELSE config.email_to)

(* C11: when required configuration is missing the run aborts immediately:  *)
(* no language-model, price-history or news call is ever made, no email is  *)
(* sent, and the run does not complete.                                     *)
C11_MissingConfigAbortsBeforeCalls ==
    (main_pc # "idle" /\ MissingRequiredConfig) =>
        /\ main_calls = {}
        /\ ~email_sent
        /\ main_pc # "done"

(* C28: a fatal authentication/billing exit raised by a model call made     *)
(* inside the processing of one IPO (baseline or summary generation) is not *)
(* swallowed by the per-item handlers of main: the run ends with that       *)
(* SystemExit, no further IPO is processed, no report is written and no     *)
(* email is sent after it.                                                  *)
C28_FatalExitAbortsRun ==
    /\ []("fatal" \in main_calls =>
             /\ main_pc = "aborted"
             /\ main_exc.cls = "SystemExit"
             /\ main_exc.at \in {"generate_baseline", "generate_recent_summary",
                                 "generate_upcoming_summary"}
             /\ ~report_written
             /\ ~email_sent)
    /\ [][("fatal" \in main_calls \/ "fatal" \in main_calls') =>
             UNCHANGED <<main_idx, recent_rows, upcoming_rows, chart_assets,
                         report_written, email_sent>>]_vars

\* the summary call for the first of two upcoming IPOs ended in the fatal
\* exit: the second IPO is never processed
C28_Witness ==
    /\ "fatal" \in main_calls
    /\ main_exc.at = "generate_upcoming_summary"
    /\ Len(upcoming_ipos) = 2
    /\ main_idx = 0
    /\ upcoming_rows = <<>>

-----------------------------------------------------------------------------
(* Properties of generate_recent_summary and generate_upcoming_summary *)

\* a step of one of the two generators
SummaryStep == sum_runs' = sum_runs + 1

\* the file of the identifier for the day holds more than blanks
NonBlankUpdate(files, identifier, day) ==
    /\ files[<<identifier, day>>] # Missing
    /\ \E i \in 1..Len(files[<<identifier, day>>]) :
          files[<<identifier, day>>][i] \notin Whitespace

\* an update of the day exists: no model call, nothing written, the update
\* is returned with updated = False
ReusesUpdate ==
    LET r == sum_result'
    IN (SummaryStep /\ NonBlankUpdate(updates, r.identifier, sum_today))
          => /\ model_calls' = model_calls
             /\ updates' = updates
             /\ ~r.updated
             /\ r.summary = Strip(updates[<<r.identifier, sum_today>>], Whitespace)

\* what is persisted and returned after the model answered: its text
\* without the blanks around it, the baseline when nothing is left
ExpectedSummary(response_text, baseline) ==
    LET kept == SelectSeq(response_text, LAMBDA ch : ch \notin Whitespace)
    IN IF kept = <<>> THEN baseline ELSE Strip(response_text, Whitespace)

\* the summary is persisted in the file of the day and returned with
\* updated = True; no other file changes
PersistsSummary ==
    LET r == sum_result'
        expected == ExpectedSummary(r.out.text, r.baseline)
    IN /\ r.updated
       /\ r.summary = expected
       /\ updates' = [updates EXCEPT ![<<r.identifier, sum_today'>>] = expected]

\* no model call is made twice for one identifier on one day
OneModelCallADay ==
    \A i, j \in 1..Len(model_calls) :
        (i < j /\ model_calls[i].identifier = model_calls[j].identifier)
            => model_calls[i].day # model_calls[j].day

NoCallAfterSavedSummary ==
    \A i, j \in 1..Len(model_calls) :
        (/\ i < j
         /\ model_calls[i].identifier = model_calls[j].identifier
         /\ model_calls[i].day = model_calls[j].day)
            => \/ model_calls[i].saved = Missing
               \/ \A k \in 1..Len(model_calls[i].saved) :
                     model_calls[i].saved[k] \in Whitespace

-----------------------------------------------------------------------------
(* Properties of the calls to the price/news API *)

(* C25: between any two consecutive calls of one run to the price/news API  *)
(* (price fetches of the batch and news fetches of the loop, a call that    *)
(* follows a failed call included) at least min_interval elapses between    *)
(* the end of the earlier call and the start of the later one.              *)
C25_MinSpacing ==
    \A i \in 1..(Len(av_calls) - 1) :
        av_calls[i + 1].start - av_calls[i].end >= min_interval

-----------------------------------------------------------------------------
(* Properties of the disk cache *)

(* C12: a _load_or_fetch function takes the cache branch exactly when no    *)
(* refresh is requested, the file holds an object whose window_days is the  *)
(* requested window, and its items are not empty; the cache branch leaves   *)
(* the file alone; in every other case the fetch pipeline runs, and the     *)
(* list it returns is written with the requested window.                    *)
C12_CacheUsedOnlyWhenValid ==
    cache_runs > 0 =>
        LET valid == /\ ~cache_req.refresh
                     /\ cache_before.kind = "dict"
                     /\ cache_before.window_days = cache_req.window_days
                     /\ cache_before.items # <<>>
        IN /\ cache_path = "cache" <=> valid
           /\ cache_path = "cache" => cache_file = cache_before
           /\ ~valid => cache_path \in {"fetch", "fetch_raised"}
           /\ cache_path = "fetch" =>
                 /\ cache_result.ok
                 /\ cache_file.kind = "dict"
                 /\ cache_file.window_days = cache_req.window_days
                 /\ Len(cache_file.items) = Len(cache_result.ipos)
                 /\ \A i \in 1..Len(cache_result.ipos) :
                       /\ cache_file.items[i].name = cache_result.ipos[i].name
                       /\ cache_file.items[i].ticker = cache_result.ipos[i].ticker
                       /\ cache_file.items[i].sources = cache_result.ipos[i].sources

\* a cache with items of another window is replaced by a fetch
C12_Witness ==
    /\ cache_runs > 0
    /\ ~cache_req.refresh
    /\ cache_before.kind = "dict"
    /\ cache_before.items # <<>>
    /\ cache_before.window_days # cache_req.window_days
    /\ cache_path = "fetch"
    /\ cache_file.window_days = cache_req.window_days
    /\ cache_file # cache_before

(* C13: cache round trip: when the file holds a non-empty list written by a *)
(* fetch run, a run with the same window_days and no refresh returns        *)
(* records equal field for field to the ones written.                       *)
C13_CacheRoundTrip ==
    [][(/\ cache_runs' = cache_runs + 1
        /\ cache_file.kind = "dict"
        /\ cache_file.items # <<>>
        /\ cache_file.window_days = cache_req'.window_days
        /\ ~cache_req'.refresh)
       => (cache_result'.ok /\ cache_result'.ipos = cache_written)]_vars

-----------------------------------------------------------------------------
(* Properties of generate_comparison_chart *)

ChartComputed == chart_pc \in {"raised", "label", "plot", "save", "returned"}

ChartLabelled == chart_pc \in {"plot", "save", "returned"}

(* C14: the earliest usable start is the later of the two first dates,      *)
(* replaced by the purchase date only when one is given and it is later     *)
(* than both; the effective start is the later of (end date minus requested *)
(* days) and that date, so the realized span never exceeds the request.     *)
C14_EffectiveStart ==
    ChartComputed =>
        LET purchase == request.purchase_date
            later == IF series[1] > benchmark_series[1] THEN series[1]
                     ELSE benchmark_series[1]
        IN /\ earliest_available =
                 (IF purchase # NoPurchase /\ purchase > series[1]
                     /\ purchase > benchmark_series[1]
                  THEN purchase ELSE later)
           /\ start_date >= end_date - request.window_days
           /\ start_date >= earliest_available
           /\ start_date \in {end_date - request.window_days, earliest_available}
           /\ end_date - start_date <= request.window_days

\* the benchmark starts later than the stock and than the requested start: its
\* first date is the effective start
C14_Witness ==
    /\ chart_pc = "returned"
    /\ benchmark_series[1] > series[1]
    /\ benchmark_series[1] > end_date - request.window_days
    /\ request.purchase_date = NoPurchase
    /\ start_date = benchmark_series[1]

(* C15: when the realized span is shorter than the requested days the label *)
(* is "since listing" if the window starts at a given purchase date that    *)
(* lies within it, and "<realized days>d" otherwise; when it is not shorter *)
(* the label is "<requested days>d".                                        *)
C15_WindowLabel ==
    ChartLabelled =>
        LET realized == end_date - start_date
            purchase == request.purchase_date
        IN /\ actual_days = realized
           /\ realized < request.window_days =>
                 IF purchase # NoPurchase /\ start_date = purchase /\ purchase <= end_date
                 THEN window_label = SinceListing
                 ELSE window_label = DaysLabel(realized)
           /\ realized >= request.window_days =>
                 window_label = DaysLabel(request.window_days)

\* a chart cut at the purchase date, which is the first date of the stock
C15_Witness ==
    /\ chart_pc = "returned"
    /\ request.purchase_date = series[1]
    /\ start_date = request.purchase_date
    /\ actual_days < request.window_days
    /\ window_label = SinceListing

\* the dates both series have
SharedDates ==
    { series[i] : i \in 1..Len(series) }
    \cap { benchmark_series[i] : i \in 1..Len(benchmark_series) }

(* C16: the end date of the chart window is the last date that the stock    *)
(* series and the benchmark series share, also when their last dates differ. *)
C16_EndIsLastSharedDate ==
    (ChartComputed /\ SharedDates # {}) =>
        /\ end_date \in SharedDates
        /\ \A d \in SharedDates : d <= end_date

(* C17: whenever the stock series or the benchmark series has no date from  *)
(* the effective start onward, the function raises ValueError, and then     *)
(* nothing is plotted and nothing is written.                               *)
C17_InsufficientDataRaises ==
    /\ (/\ ChartComputed
        /\ \/ \A i \in 1..Len(series) : series[i] < start_date
           \/ \A i \in 1..Len(benchmark_series) : benchmark_series[i] < start_date)
       => (chart_pc = "raised" /\ chart_exc = "ValueError")
    /\ chart_pc = "raised" => (~plotted /\ ~saved)

\* the benchmark ends before the effective start while the stock does not
C17_Witness ==
    /\ chart_pc = "raised"
    /\ \A i \in 1..Len(benchmark_series) : benchmark_series[i] < start_date
    /\ \E i \in 1..Len(series) : series[i] >= start_date
    /\ ~plotted
    /\ ~saved

\* the calls of the formatter, so far, for a January date inside the window
JanuaryTicks ==
    { i \in 1..Len(tick_labels) :
          /\ tick_labels[i].date.month = 1
          /\ Ord(start_date_obj) <= Ord(tick_labels[i].date)
          /\ Ord(tick_labels[i].date) <= Ord(end_date_obj) }

\* the window holds a January date
WindowHoldsJanuary ==
    \E d \in TickDates :
        d.month = 1 /\ Ord(start_date_obj) <= Ord(d) /\ Ord(d) <= Ord(end_date_obj)

(* C26: for a chart of at most 30 days whose window contains January dates, *)
(* over any sequence of calls of the tick formatter the MM/DD/YY form is    *)
(* returned for the first January date inside the window that is formatted  *)
(* and for no other call; every other tick is formatted MM/DD.              *)
C26_YearShownOnFirstJanuaryTick ==
    tick_pc = "ticks" /\ WindowHoldsJanuary =>
        \A i \in 1..Len(tick_labels) :
            tick_labels[i].fmt =
                IF i \in JanuaryTicks /\ \A k \in JanuaryTicks : i <= k
                THEN "%m/%d/%y" ELSE "%m/%d"

-----------------------------------------------------------------------------
(* Properties of compute_ipo_performance *)

\* the fraction r is n / d
IsRatio(r, n, d) == r.den > 0 /\ r.num * d = n * r.den

(* C18: perf_since_ipo is (current_price - ipo_price) / ipo_price exactly   *)
(* when the resolved ipo_price is present and not zero and current_price is *)
(* present, and is absent in every other case; current_price is the last    *)
(* value of the series, absent when the series is None or empty.            *)
C18_PerfSinceIpo ==
    perf_pc = "returned" =>
        LET pts == perf_series.points
        IN /\ current_price = (IF perf_series.present /\ pts # <<>>
                               THEN pts[Len(pts)].value ELSE NoPrice)
           /\ IF ipo_price # NoPrice /\ ipo_price # 0 /\ current_price # NoPrice
              THEN IsRatio(perf_since_ipo, current_price - ipo_price, ipo_price)
              ELSE perf_since_ipo = Absent

\* ipo_price 20 and current price 25 give 0.25
C18_Witness ==
    /\ perf_pc = "returned"
    /\ perf_ipo.ipo_price = 20
    /\ ipo_price = 20
    /\ current_price = 25
    /\ perf_since_ipo = [num |-> 1, den |-> 4]

\* the trailing return the claim describes for a series and a number of days
TrailingReturnIs(r, days) ==
    LET pts == perf_series.points
        cut == pts[Len(pts)].date - days
        prior == { i \in 1..Len(pts) : pts[i].date <= cut }
        last == CHOOSE i \in prior : \A j \in prior : j <= i
    IN IF ~perf_series.present \/ pts = <<>> THEN r = Absent
       ELSE IF prior = {} THEN r = Absent
       ELSE IF pts[last].value = 0 THEN r = Absent
       ELSE IsRatio(r, pts[Len(pts)].value - pts[last].value, pts[last].value)

(* C19: the trailing 7-day and 30-day returns start from the last value     *)
(* dated at or before the last date minus the days; they are absent when    *)
(* there is no such point or when that value is zero, and otherwise are     *)
(* (last value - start value) / start value.                                *)
C19_TrailingReturns ==
    perf_pc = "returned" =>
        /\ TrailingReturnIs(return_1w, 7)
        /\ TrailingReturnIs(return_1m, 30)

\* a point exactly seven days before the last one starts the weekly return,
\* and the series does not reach back a month
C19_Witness ==
    /\ perf_pc = "returned"
    /\ Len(perf_series.points) >= 2
    /\ \E i \in 1..Len(perf_series.points) :
          /\ perf_series.points[i].date = perf_series.points[Len(perf_series.points)].date - 7
          /\ perf_series.points[i].value = 20
    /\ perf_series.points[Len(perf_series.points)].value = 25
    /\ return_1w = [num |-> 1, den |-> 4]
    /\ return_1m = Absent

(* C20: when the record has no ipo_price and a non-empty series is there,   *)
(* ipo_price becomes the first series value dated at or after ipo_date, and *)
(* stays absent when there is no such point; an ipo_price the record        *)
(* carries is never replaced.                                               *)
C20_Backfill ==
    perf_pc \in {"returns", "returned"} =>
        LET pts == perf_series.points
            after == IF perf_ipo.ipo_date = NoDate THEN {}
                     ELSE { i \in 1..Len(pts) : pts[i].date >= perf_ipo.ipo_date }
            first == CHOOSE i \in after : \A j \in after : i <= j
        IN /\ perf_ipo.ipo_price # NoPrice => ipo_price = perf_ipo.ipo_price
           /\ (perf_ipo.ipo_price = NoPrice /\ perf_series.present /\ pts # <<>>) =>
                 ipo_price = (IF after = {} THEN NoPrice ELSE pts[first].value)
           /\ (perf_ipo.ipo_price = NoPrice /\ (~perf_series.present \/ pts = <<>>)) =>
                 ipo_price = NoPrice

\* a missing ipo_price is filled from the point dated on the ipo_date itself,
\* which is not the first point of the series
C20_Witness ==
    /\ perf_pc = "returned"
    /\ perf_ipo.ipo_price = NoPrice
    /\ perf_ipo.ipo_date = 3
    /\ Len(perf_series.points) >= 2
    /\ perf_series.points[1].date = 1
    /\ perf_series.points[2].date = 3
    /\ perf_series.points[1].value # perf_series.points[2].value
    /\ ipo_price = perf_series.points[2].value

-----------------------------------------------------------------------------
(* Properties of extract_json_block *)

(* C4: extract_json_block is idempotent: when it returned a value X for a   *)
(* text, extracting from the JSON serialization of X returns a value equal  *)
(* to X, also when X holds strings with backtick fences or brackets.        *)
C4_ExtractIdempotent ==
    (json_pc = "done" /\ json_round = 2) => json_result = first_result

(* A fenced code block of a text, read by lines: an opening line made of a  *)
(* fence and an optional tag json, the lines of the content, and a closing  *)
(* line made of a fence.  MarkdownBlocks gives the contents in order.       *)
OpensBlock(s, p) ==
    /\ p + 2 <= Len(s)
    /\ SubSeq(s, p, p + 2) = Fence
    /\ p = 1 \/ s[p - 1] = NL
    /\ \/ p + 3 <= Len(s) /\ s[p + 3] = NL
       \/ p + 7 <= Len(s) /\ SubSeq(s, p + 3, p + 6) = JsonTag /\ s[p + 7] = NL

ClosesBlock(s, q) ==
    /\ q + 2 <= Len(s)
    /\ SubSeq(s, q, q + 2) = Fence
    /\ s[q - 1] = NL
    /\ q + 3 > Len(s) \/ s[q + 3] = NL

RECURSIVE FirstAt(_, _, _)
FirstAt(P(_, _), s, from) ==
    IF from > Len(s) THEN 0
    ELSE IF P(s, from) THEN from
    ELSE FirstAt(P, s, from + 1)

RECURSIVE MarkdownBlocks(_, _)
MarkdownBlocks(s, from) ==
    LET p == FirstAt(OpensBlock, s, from)
        b == IF s[p + 3] = NL THEN p + 4 ELSE p + 8
        q == FirstAt(ClosesBlock, s, b)
    IN IF p = 0 THEN <<>>
       ELSE IF q = 0 THEN <<>>
       ELSE <<SubSeq(s, b, q - 2)>> \o MarkdownBlocks(s, q + 3)

\* the fenced blocks whose content is a valid JSON array or object
ValidFencedValues(s) ==
    LET blocks == MarkdownBlocks(s, 1)
    IN { json_loads(blocks[i]) : i \in 1..Len(blocks) } \ {JNone}

(* C5: when the text has a fenced code block whose content is a valid JSON  *)
(* array or object, that value is returned whatever braces or brackets the  *)
(* surrounding prose holds, and the raw-text scan runs only when no fenced  *)
(* block parses.                                                            *)
C5_FencedValueReturned ==
    /\ (json_pc = "done" /\ ValidFencedValues(text) # {}) =>
          json_result \in ValidFencedValues(text)
    /\ json_pc \in {"scan", "parse"} => ValidFencedValues(text) = {}

\* the scan loop takes a step
ScanSteps == json_pc = "scan" /\ json_pc' \in {"scan", "parse"}

(* C6: the raw-text scan is a string-aware state machine.  It starts at the *)
(* earliest brace or bracket; the depth changes only on a bracket character *)
(* seen outside a string; inside a string a backslash escapes the next      *)
(* character, so an escaped quote does not end the string; the depth is at  *)
(* least 1 from the first character until the scan stops; and the span ends *)
(* at the first position where the depth is back to 0.                      *)
C6_ScanIsStringAware ==
    /\ [](json_pc \in {"scan", "parse"} =>
            /\ start = EarliestOpen(text)
            /\ \A i \in 1..(start - 1) : text[i] \notin {"{", "["}
            /\ text[start] = open_char
            /\ open_char \in {"{", "["})
    /\ []((json_pc = "scan" /\ idx = start) => depth = 0)
    /\ []((json_pc = "scan" /\ idx > start) => depth >= 1)
    /\ [](json_pc = "parse" => (depth = 0 /\ scan_end = idx + 1 /\ text[idx] = CloseChar(open_char)))
    /\ [][ScanSteps =>
            /\ depth' # depth =>
                  (~in_string /\ ~escape_next /\ text[idx] \in {"[", "]", "{", "}"})
            /\ (in_string /\ ~escape_next /\ text[idx] = BS) => (escape_next' /\ in_string')
            /\ escape_next => (~escape_next' /\ in_string' = in_string)
            /\ in_string' # in_string => (text[idx] = DQ /\ ~escape_next)
            /\ json_pc' = "parse" <=> depth' = 0]_vars

\* the scan has passed a closing brace inside a string, behind an escaped
\* quote, and has ended at the closing brace of the object
C6_Witness ==
    /\ json_pc = "parse"
    /\ open_char = "{"
    /\ \E i, j \in (start + 1)..(idx - 1) :
          /\ i + 1 < j
          /\ text[i] = BS
          /\ text[i + 1] = DQ
          /\ text[j] = "}"
          /\ text[start + 1] = DQ
          /\ \A m \in (start + 2)..j : text[m] = DQ => m = i + 1
    /\ json_loads(SubSeq(text, start, scan_end - 1)) # JNone

Letters == {"a", "x", "h", "j", "s", "o", "n"}

\* prose: it begins with a word and holds neither a fence nor a quote, so
\* that its brackets and braces are punctuation
ProseOnly(s) ==
    /\ s # <<>>
    /\ s[1] \in Letters
    /\ Find(s, Fence, 1) = 0
    /\ Find(s, <<DQ>>, 1) = 0

(* C7: prose is not mistaken for JSON: a text without a fenced block whose  *)
(* brackets and braces are prose punctuation, such as a bracketed reference *)
(* number or a braced word, gives None, and so does a text that holds       *)
(* neither a brace nor a bracket.                                           *)
C7_ProseIsNotJson ==
    json_pc = "done" =>
        /\ ProseOnly(text) => json_result = JNone
        /\ EarliestOpen(text) = 0 => json_result = JNone

-----------------------------------------------------------------------------
(* Properties of the label of generate_comparison_chart *)

(* C30: a chart that does not fail is labelled "since listing" exactly when *)
(* a purchase date is given, the effective start is the purchase date and   *)
(* the effective start is later than the end date minus the requested days; *)
(* a purchase date before the effective start gives the label of the        *)
(* realized days or of the requested days.                                  *)
C30_SinceListingIffStartIsPurchase ==
    ChartLabelled =>
        LET purchase == request.purchase_date
            requested == end_date - request.window_days
        IN /\ window_label = SinceListing
                <=> /\ purchase # NoPurchase
                    /\ start_date = purchase
                    /\ start_date > requested
           /\ (purchase # NoPurchase /\ purchase < start_date)
                => window_label \in {DaysLabel(end_date - start_date),
                                     DaysLabel(request.window_days)}

\* a purchase date after the first dates of both series and after the
\* requested start: the chart starts there and is labelled "since listing"
C30_Witness ==
    /\ chart_pc = "returned"
    /\ request.purchase_date # NoPurchase
    /\ request.purchase_date > series[1]
    /\ request.purchase_date > benchmark_series[1]
    /\ request.purchase_date > end_date - request.window_days
    /\ start_date = request.purchase_date
    /\ window_label = SinceListing


====
